---- MODULE Spec2Model ----
(***************************************************************************)
(* Model of the themeflick recommendation engine                           *)
(* (web/src/lib/recommendationEngine.ts): the pairwise scorer, the         *)
(* calibrator, the reason builder and the diversity selector; and of the   *)
(* TMDB client's getMovieRecommendations, which fetches the candidates,    *)
(* merges them and hands them to the engine; of the loads of               *)
(* MovieDetailsPage and HomePage; and of the favorites store.              *)
(*                                                                         *)
(* Numbers.  The source computes in IEEE doubles; the model computes in    *)
(* fixed point, rounding every quotient down:                              *)
(*   - a signal (genreScore, castScore, ...) is an integer number of       *)
(*     millionths (Unit6 = 1.0);                                           *)
(*   - a raw score and a reason's contribution are integer numbers of      *)
(*     1e-8 (Unit8 = 1.0), the product of a signal by a weight in          *)
(*     hundredths;                                                         *)
(*   - voteAverage and every calibrated score are integer numbers of       *)
(*     tenths (82 = 8.2, 994 = 99.4);                                      *)
(*   - Math.exp and Math.log10 are evaluated by series on these integers.  *)
(* A raw score of the model is within 1e-6 of the source's; a calibrated   *)
(* score can differ from the source's by one tenth when the exact value    *)
(* lies within 1e-4 of a rounding boundary.                                *)
(* null is the integer Null, outside every id, year and runtime.           *)
(***************************************************************************)
EXTENDS Integers, Sequences, FiniteSets, TLC

VARIABLES pc, base, candidate, scored, pool, remaining, selected, directorCounts, ranked,
          calibration,
          movieId, tmdb, failed, requests, allCandidates, mergedCandidates, rankingCandidates,
          response,
          detailsRoute, detailsPage, detailsLoads, homePage, homeRequests, storage, toggled

\* The state of a getMovieRecommendations call.
apiVars == <<movieId, tmdb, failed, requests, allCandidates, mergedCandidates, rankingCandidates,
             response>>

\* The state of MovieDetailsPage, of HomePage and of the favorites store.
detailsVars == <<detailsRoute, detailsPage, detailsLoads>>
homeVars == <<homePage, homeRequests>>
favoritesVars == <<storage, toggled>>
webVars == <<detailsVars, homeVars, favoritesVars>>

vars == <<pc, base, candidate, scored, pool, remaining, selected, directorCounts, ranked,
          calibration, apiVars, webVars>>

Null == 0 - 1

Unit4 == 100 * 100
Unit6 == 1000 * 1000
Unit7 == 10 * Unit6
Unit8 == 100 * Unit6

(***************************************************************************)
(* Arithmetic on fixed-point numbers within 32-bit integers.               *)
(***************************************************************************)

\* floor(a * b / Unit8) for a, b >= 0 (a < 20 * Unit8, b < 4 * Unit8),
\* without forming a * b.
MulDiv8(a, b) ==
    LET ah == a \div Unit4
        al == a % Unit4
        bh == b \div Unit4
        bl == b % Unit4
    IN  ah * bh + ((ah * bl + al * bh) + ((al * bl) \div Unit4)) \div Unit4

RECURSIVE Pow10(_)
Pow10(n) == IF n = 0 THEN 1 ELSE 10 * Pow10(n - 1)

\* floor(r * 10^digits / d) for 0 <= r < d < 2 * Unit8, by long division.
RECURSIVE LongDiv(_, _, _)
LongDiv(r, d, digits) ==
    IF digits = 0 THEN 0
    ELSE LET rr == r * 10
         IN  (rr \div d) * Pow10(digits - 1) + LongDiv(rr % d, d, digits - 1)

Max(a, b) == IF a >= b THEN a ELSE b
Min(a, b) == IF a <= b THEN a ELSE b
Abs(a) == IF a < 0 THEN 0 - a ELSE a

\* e^k in millionths, k in -6 .. 5.
EPow6(k) ==
    CASE k = 0 - 6 -> 2479
      [] k = 0 - 5 -> 6738
      [] k = 0 - 4 -> 18316
      [] k = 0 - 3 -> 49787
      [] k = 0 - 2 -> 135335
      [] k = 0 - 1 -> 367879
      [] k = 0 -> 1000000
      [] k = 1 -> 2718282
      [] k = 2 -> 7389056
      [] k = 3 -> 20085537
      [] k = 4 -> 54598150
      [] k = 5 -> 148413159

\* sum of f^n / n! for n = i .. 14, given term = f^(i-1) / (i-1)!, in 1e-8.
RECURSIVE ExpSeries(_, _, _)
ExpSeries(f8, term, i) ==
    IF i > 14 \/ term = 0 THEN 0
    ELSE LET next == MulDiv8(term, f8) \div i
         IN  next + ExpSeries(f8, next, i + 1)

\* Math.exp(x) in millionths, x in 1e-8 and -5.2 <= x <= 5.2:
\* e^x = e^floor(x) * e^(x - floor(x)).
Exp6(x8) ==
    LET k == x8 \div Unit8
        f8 == x8 % Unit8
        ef8 == Unit8 + ExpSeries(f8, Unit8, 1)
    IN  MulDiv8(ef8, EPow6(k))

RECURSIVE Log2Floor(_)
Log2Floor(n) == IF n < 2 THEN 0 ELSE 1 + Log2Floor(n \div 2)

RECURSIVE Pow2(_)
Pow2(n) == IF n = 0 THEN 1 ELSE 2 * Pow2(n - 1)

\* sum of z^(2j+1) / (2j+1) for j = i .. 9, given zpow = z^(2i+1), in 1e-8.
RECURSIVE AtanhSeries(_, _, _)
AtanhSeries(zz8, zpow, i) ==
    IF i > 9 \/ zpow = 0 THEN 0
    ELSE zpow \div (2 * i + 1) + AtanhSeries(zz8, MulDiv8(zpow, zz8), i + 1)

Ln2x8 == 69314718 + 0
Log10Ex8 == 43429448 + 0

\* Math.log10(n) in millionths for an integer n >= 1:
\* n = 2^p * m with 1 <= m < 2, ln m = 2 atanh((m - 1) / (m + 1)),
\* log10 n = (p ln 2 + ln m) * log10 e.
Log10x6(n) ==
    LET p == Log2Floor(n)
        d == Pow2(p)
        m8 == Unit8 + LongDiv(n - d, d, 8)
        z8 == LongDiv((m8 - Unit8) \div 2, (m8 + Unit8) \div 2, 8)
        lnm8 == 2 * AtanhSeries(MulDiv8(z8, z8), z8, 0)
    IN  MulDiv8(p * Ln2x8 + lnm8, Log10Ex8) \div 100

(***************************************************************************)
(* Constants of the engine.  Weights are in hundredths.                    *)
(***************************************************************************)

MAX_RESULTS == 18
MAX_PER_DIRECTOR == 2
MIN_SCORE_SAME_DIRECTOR == 400
MinScoreGeneralAsSameDirector == MIN_SCORE_SAME_DIRECTOR
MIN_SCORE_GENERAL == 460
CAST_POSITION_WEIGHTS == <<100, 80, 60, 45, 30>>

SIGNAL_WEIGHTS ==
    [genre |-> 30, keyword |-> 20, cast |-> 14, director |-> 12,
     year |-> 9, runtime |-> 7, rating |-> 5, confidence |-> 3]

clamp(value, min, max) == Max(min, Min(max, value))

\* Math.round(value * 10) / 10 of a value in 1e-7, as a number of tenths.
roundToSingleDecimal(value7) == (value7 + Unit6 \div 2) \div Unit6

Range(s) == {s[i] : i \in DOMAIN s}

\* jaccardScore counting every member of the left set as shared.
jaccardScoreCountsAll(left, right) ==
    IF Len(left) = 0 \/ Len(right) = 0 THEN 0
    ELSE LET leftSet == Range(left)
             rightSet == Range(right)
             intersection == Cardinality(leftSet)
             union == Cardinality(leftSet \cup rightSet)
         IN  IF union = 0 THEN 0 ELSE (intersection * Unit6) \div union

jaccardScore(left, right) ==
    IF Len(left) = 0 \/ Len(right) = 0 THEN 0
    ELSE LET leftSet == Range(left)
             rightSet == Range(right)
             intersection == Cardinality({value \in leftSet : value \in rightSet})
             union == Cardinality(leftSet \cup rightSet)
         IN  IF union = 0 THEN 0 ELSE (intersection * Unit6) \div union

RECURSIVE SumWeights(_, _, _)
SumWeights(limitedBase, candidateSet, index) ==
    IF index > Len(limitedBase) THEN [score |-> 0, maxScore |-> 0]
    ELSE LET weight == CAST_POSITION_WEIGHTS[index]
             rest == SumWeights(limitedBase, candidateSet, index + 1)
         IN  [score |-> rest.score + (IF limitedBase[index] \in candidateSet THEN weight ELSE 0),
              maxScore |-> rest.maxScore + weight]

weightedCastOverlap(baseCast, candidateCast) ==
    IF Len(baseCast) = 0 \/ Len(candidateCast) = 0 THEN 0
    ELSE LET candidateSet == Range(candidateCast)
             limitedBase == SubSeq(baseCast, 1, Min(Len(baseCast), Len(CAST_POSITION_WEIGHTS)))
             sums == SumWeights(limitedBase, candidateSet, 1)
         IN  IF sums.maxScore = 0 THEN 0 ELSE (sums.score * Unit6) \div sums.maxScore

\* scoreSignals with the director ids compared without the null checks, so
\* that two unknown directors count as the same director.
scoreSignalsNullEqual(b, c) ==
    LET sameDirector == b.directorId = c.directorId
        yearDiff == IF b.releaseYear # Null /\ c.releaseYear # Null
                    THEN Abs(b.releaseYear - c.releaseYear) ELSE Null
        runtimeDiff == IF b.runtimeMinutes # Null /\ c.runtimeMinutes # Null
                       THEN Abs(b.runtimeMinutes - c.runtimeMinutes) ELSE Null
    IN  [genreScore |-> jaccardScore(b.genreIds, c.genreIds),
         keywordScore |-> jaccardScore(b.keywordIds, c.keywordIds),
         castScore |-> weightedCastOverlap(b.castIds, c.castIds),
         yearScore |-> IF yearDiff = Null THEN 450000
                       ELSE clamp(Unit6 - (yearDiff * Unit6) \div 18, 0, Unit6),
         runtimeScore |-> IF runtimeDiff = Null THEN 550000
                          ELSE clamp(Unit6 - (runtimeDiff * Unit6) \div 70, 0, Unit6),
         ratingScore |-> clamp(Unit6 - (Abs(b.voteAverage - c.voteAverage) * Unit6) \div 35, 0, Unit6),
         confidenceScore |-> clamp(Log10x6(c.voteCount + 1) \div 4, 0, Unit6),
         sameDirector |-> sameDirector,
         yearDiff |-> yearDiff,
         runtimeDiff |-> runtimeDiff]

scoreSignals(b, c) ==
    LET sameDirector == b.directorId # Null /\ c.directorId # Null /\ b.directorId = c.directorId
        yearDiff == IF b.releaseYear # Null /\ c.releaseYear # Null
                    THEN Abs(b.releaseYear - c.releaseYear) ELSE Null
        runtimeDiff == IF b.runtimeMinutes # Null /\ c.runtimeMinutes # Null
                       THEN Abs(b.runtimeMinutes - c.runtimeMinutes) ELSE Null
    IN  [genreScore |-> jaccardScore(b.genreIds, c.genreIds),
         keywordScore |-> jaccardScore(b.keywordIds, c.keywordIds),
         castScore |-> weightedCastOverlap(b.castIds, c.castIds),
         yearScore |-> IF yearDiff = Null THEN 450000
                       ELSE clamp(Unit6 - (yearDiff * Unit6) \div 18, 0, Unit6),
         runtimeScore |-> IF runtimeDiff = Null THEN 550000
                          ELSE clamp(Unit6 - (runtimeDiff * Unit6) \div 70, 0, Unit6),
         ratingScore |-> clamp(Unit6 - (Abs(b.voteAverage - c.voteAverage) * Unit6) \div 35, 0, Unit6),
         confidenceScore |-> clamp(Log10x6(c.voteCount + 1) \div 4, 0, Unit6),
         sameDirector |-> sameDirector,
         yearDiff |-> yearDiff,
         runtimeDiff |-> runtimeDiff]

ReasonCandidates(signals) ==
    (IF signals.sameDirector
     THEN <<[label |-> "Same director",
             contribution |-> SIGNAL_WEIGHTS.director * Unit6
                              + (IF signals.genreScore >= 200000 THEN 4 * Unit6 ELSE 0)]>>
     ELSE <<>>)
    \o (IF signals.keywordScore >= 180000
        THEN <<[label |-> "Shared themes",
                contribution |-> signals.keywordScore * SIGNAL_WEIGHTS.keyword
                                 + (IF signals.keywordScore >= 350000 THEN 3 * Unit6 ELSE 0)]>>
        ELSE <<>>)
    \o (IF signals.genreScore >= 180000
        THEN <<[label |-> "Strong genre overlap",
                contribution |-> signals.genreScore * SIGNAL_WEIGHTS.genre]>>
        ELSE <<>>)
    \o (IF signals.castScore >= 200000
        THEN <<[label |-> "Shared cast",
                contribution |-> signals.castScore * SIGNAL_WEIGHTS.cast]>>
        ELSE <<>>)
    \o (IF signals.yearDiff # Null /\ signals.yearScore >= 550000
        THEN <<[label |-> "Same era",
                contribution |-> signals.yearScore * SIGNAL_WEIGHTS.year]>>
        ELSE <<>>)
    \o (IF signals.runtimeDiff # Null /\ signals.runtimeScore >= 650000
        THEN <<[label |-> "Similar pacing",
                contribution |-> signals.runtimeScore * SIGNAL_WEIGHTS.runtime]>>
        ELSE <<>>)

\* reasons.sort((left, right) => right.contribution - left.contribution):
\* Array.prototype.sort is stable, so a reason goes before the first sorted
\* entry of strictly smaller contribution, after its equals.
RECURSIVE InsertReason(_, _, _)
InsertReason(x, sorted, i) ==
    IF i > Len(sorted) THEN Append(sorted, x)
    ELSE IF sorted[i].contribution - x.contribution < 0
         THEN SubSeq(sorted, 1, i - 1) \o <<x>> \o SubSeq(sorted, i, Len(sorted))
         ELSE InsertReason(x, sorted, i + 1)

RECURSIVE SortReasons(_)
SortReasons(s) ==
    IF Len(s) = 0 THEN <<>>
    ELSE InsertReason(s[Len(s)], SortReasons(SubSeq(s, 1, Len(s) - 1)), 1)

NotSameDirectorLabel(reason) == reason.label # "Same director"

\* buildReason returning only the strongest label when the directors differ.
buildReasonTopOnly(signals) ==
    LET reasons == SortReasons(ReasonCandidates(signals))
    IN  IF signals.sameDirector
        THEN LET others == SelectSeq(reasons, NotSameDirectorLabel)
             IN  IF Len(others) > 0
                 THEN "Same director + " \o others[1].label
                 ELSE "Same director"
        ELSE IF Len(reasons) = 0 THEN "Strong overall profile match"
        ELSE reasons[1].label

\* buildReason without the sort: the reasons stay in the order they were pushed.
buildReasonUnsorted(signals) ==
    LET reasons == ReasonCandidates(signals)
    IN  IF signals.sameDirector
        THEN LET others == SelectSeq(reasons, NotSameDirectorLabel)
             IN  IF Len(others) > 0
                 THEN "Same director + " \o others[1].label
                 ELSE "Same director"
        ELSE IF Len(reasons) = 0 THEN "Strong overall profile match"
        ELSE IF Len(reasons) = 1 THEN reasons[1].label
        ELSE reasons[1].label \o " + " \o reasons[2].label

buildReason(signals) ==
    LET reasons == SortReasons(ReasonCandidates(signals))
    IN  IF signals.sameDirector
        THEN LET others == SelectSeq(reasons, NotSameDirectorLabel)
             IN  IF Len(others) > 0
                 THEN "Same director + " \o others[1].label
                 ELSE "Same director"
        ELSE IF Len(reasons) = 0 THEN "Strong overall profile match"
        ELSE IF Len(reasons) = 1 THEN reasons[1].label
        ELSE reasons[1].label \o " + " \o reasons[2].label

\* 1 / (1 + Math.exp(-(rawScore - 0.52) / 0.1)), in 1e-7.
Logistic7(rawScore8) == LongDiv(Unit6, Unit6 + Exp6((52 * Unit6 - rawScore8) * 10), 7)

\* calibrateToMatchScore without the division of the exponent by 0.1.
calibrateUnscaled(rawScore8) ==
    LET logistic == LongDiv(Unit6, Unit6 + Exp6(52 * Unit6 - rawScore8), 7)
        calibrated == clamp(12 * Unit7 + logistic * 86, 0, 994 * Unit6)
    IN  roundToSingleDecimal(calibrated)

\* calibrateToMatchScore with the sign of the exponent lost.
calibrateSignLost(rawScore8) ==
    LET logistic == LongDiv(Unit6, Unit6 + Exp6((rawScore8 - 52 * Unit6) * 10), 7)
        calibrated == clamp(12 * Unit7 + logistic * 86, 0, 994 * Unit6)
    IN  roundToSingleDecimal(calibrated)

calibrateToMatchScore(rawScore8) ==
    LET calibrated == clamp(12 * Unit7 + Logistic7(rawScore8) * 86, 0, 994 * Unit6)
    IN  roundToSingleDecimal(calibrated)

\* The null result of scoreCandidateDetailed and scoreCandidate.
NoResult == [isNull |-> TRUE, score |-> 0, rawScore |-> 0, reason |-> "", sameDirector |-> FALSE]

\* WeightedSum with the director weight added whether or not the directors
\* match.
WeightedSumDirectorAlways(signals) ==
    signals.genreScore * SIGNAL_WEIGHTS.genre
    + signals.keywordScore * SIGNAL_WEIGHTS.keyword
    + signals.castScore * SIGNAL_WEIGHTS.cast
    + Unit6 * SIGNAL_WEIGHTS.director
    + signals.yearScore * SIGNAL_WEIGHTS.year
    + signals.runtimeScore * SIGNAL_WEIGHTS.runtime
    + signals.ratingScore * SIGNAL_WEIGHTS.rating
    + signals.confidenceScore * SIGNAL_WEIGHTS.confidence

WeightedSum(signals) ==
    signals.genreScore * SIGNAL_WEIGHTS.genre
    + signals.keywordScore * SIGNAL_WEIGHTS.keyword
    + signals.castScore * SIGNAL_WEIGHTS.cast
    + (IF signals.sameDirector THEN Unit6 ELSE 0) * SIGNAL_WEIGHTS.director
    + signals.yearScore * SIGNAL_WEIGHTS.year
    + signals.runtimeScore * SIGNAL_WEIGHTS.runtime
    + signals.ratingScore * SIGNAL_WEIGHTS.rating
    + signals.confidenceScore * SIGNAL_WEIGHTS.confidence

AdjustedRawScore(signals) ==
    clamp(WeightedSum(signals)
          + (IF signals.sameDirector /\ signals.genreScore >= 200000 THEN 4 * Unit6 ELSE 0)
          + (IF signals.keywordScore >= 350000 THEN 3 * Unit6 ELSE 0)
          - (IF ~signals.sameDirector /\ signals.genreScore = 0 THEN 10 * Unit6 ELSE 0)
          - (IF signals.yearDiff # Null /\ signals.yearDiff > 25 THEN 4 * Unit6 ELSE 0),
          0, Unit8)

\* The first hard filter: no director match and no topical link.
\* NoCoreOverlap with the genre threshold tested by <= instead of <.
NoCoreOverlapInclusive(signals) ==
    ~signals.sameDirector /\ signals.genreScore <= 100000
    /\ signals.keywordScore < 100000 /\ signals.castScore < 200000

NoCoreOverlap(signals) ==
    ~signals.sameDirector /\ signals.genreScore < 100000
    /\ signals.keywordScore < 100000 /\ signals.castScore < 200000

\* BelowVoteFloor with the floor applied to same-director candidates only.
BelowVoteFloorInverted(signals, c) == signals.sameDirector /\ c.voteCount < 35

\* The second hard filter: no director match and too few votes.
BelowVoteFloor(signals, c) == ~signals.sameDirector /\ c.voteCount < 35

scoreCandidateDetailed(b, c) ==
    LET signals == scoreSignals(b, c)
    IN  IF NoCoreOverlap(signals) THEN NoResult
        ELSE IF BelowVoteFloor(signals, c) THEN NoResult
        ELSE LET rawScore == AdjustedRawScore(signals)
             IN  IF rawScore < 34 * Unit6 THEN NoResult
                 ELSE LET score == calibrateToMatchScore(rawScore)
                          threshold == IF signals.sameDirector THEN MIN_SCORE_SAME_DIRECTOR
                                       ELSE MIN_SCORE_GENERAL
                      IN  IF score < threshold THEN NoResult
                          ELSE [isNull |-> FALSE, score |-> score, rawScore |-> rawScore,
                                reason |-> buildReason(signals),
                                sameDirector |-> signals.sameDirector]

NoScore == [isNull |-> TRUE, score |-> 0, reason |-> ""]

scoreCandidate(b, c) ==
    LET detailed == scoreCandidateDetailed(b, c)
    IN  IF detailed.isNull THEN NoScore
        ELSE [isNull |-> FALSE, score |-> detailed.score, reason |-> detailed.reason]

\* Candidate-to-candidate similarity, in millionths.
pairSimilarity(left, right) ==
    LET sameDirector == IF left.features.directorId # Null
                           /\ right.features.directorId # Null
                           /\ left.features.directorId = right.features.directorId
                        THEN 1 ELSE 0
        genreSimilarity == jaccardScore(left.features.genreIds, right.features.genreIds)
        eraSimilarity == IF left.features.releaseYear # Null /\ right.features.releaseYear # Null
                         THEN clamp(Unit6 - (Abs(left.features.releaseYear
                                                 - right.features.releaseYear) * Unit6) \div 20,
                                    0, Unit6)
                         ELSE 350000
    IN  clamp((sameDirector * 50 * Unit6 + genreSimilarity * 35 + eraSimilarity * 15) \div 100,
              0, Unit6)

\* candidates.map(...).filter(candidate => candidate !== null): the accepted
\* candidates, in input order, each with its score, reason and relevance
\* (score / 100, in millionths).
\* ScoreAll without the filter: a rejected candidate stays, with score 0.
RECURSIVE ScoreAllUnfiltered(_, _)
ScoreAllUnfiltered(b, candidates) ==
    IF Len(candidates) = 0 THEN <<>>
    ELSE LET c == Head(candidates)
             scoredCandidate == scoreCandidateDetailed(b, c.features)
         IN  <<[id |-> c.id, title |-> c.title, poster_path |-> c.poster_path,
                release_date |-> c.release_date, vote_average |-> c.vote_average,
                director_id |-> c.director_id, features |-> c.features,
                similarity_score |-> scoredCandidate.score,
                match_reason |-> scoredCandidate.reason,
                relevance |-> scoredCandidate.score * 1000]>>
             \o ScoreAllUnfiltered(b, Tail(candidates))

\* ScoreAll that stops at the first rejected candidate and drops the rest.
RECURSIVE ScoreAllUntilRejected(_, _)
ScoreAllUntilRejected(b, candidates) ==
    IF Len(candidates) = 0 THEN <<>>
    ELSE LET c == Head(candidates)
             scoredCandidate == scoreCandidateDetailed(b, c.features)
         IN  IF scoredCandidate.isNull THEN <<>>
             ELSE <<[id |-> c.id, title |-> c.title, poster_path |-> c.poster_path,
                     release_date |-> c.release_date, vote_average |-> c.vote_average,
                     director_id |-> c.director_id, features |-> c.features,
                     similarity_score |-> scoredCandidate.score,
                     match_reason |-> scoredCandidate.reason,
                     relevance |-> scoredCandidate.score * 1000]>>
                  \o ScoreAllUntilRejected(b, Tail(candidates))

RECURSIVE ScoreAll(_, _)
ScoreAll(b, candidates) ==
    IF Len(candidates) = 0 THEN <<>>
    ELSE LET c == Head(candidates)
             scoredCandidate == scoreCandidateDetailed(b, c.features)
             rest == ScoreAll(b, Tail(candidates))
         IN  IF scoredCandidate.isNull THEN rest
             ELSE <<[id |-> c.id, title |-> c.title, poster_path |-> c.poster_path,
                     release_date |-> c.release_date, vote_average |-> c.vote_average,
                     director_id |-> c.director_id, features |-> c.features,
                     similarity_score |-> scoredCandidate.score,
                     match_reason |-> scoredCandidate.reason,
                     relevance |-> scoredCandidate.score * 1000]>> \o rest

\* The comparator of scored.sort: negative when left goes before right.
CompareScored(left, right) ==
    IF right.similarity_score # left.similarity_score
    THEN right.similarity_score - left.similarity_score
    ELSE IF right.vote_average # left.vote_average
    THEN right.vote_average - left.vote_average
    ELSE left.id - right.id

RECURSIVE InsertScored(_, _, _)
InsertScored(x, sorted, i) ==
    IF i > Len(sorted) THEN Append(sorted, x)
    ELSE IF CompareScored(x, sorted[i]) < 0
         THEN SubSeq(sorted, 1, i - 1) \o <<x>> \o SubSeq(sorted, i, Len(sorted))
         ELSE InsertScored(x, sorted, i + 1)

\* scored.sort(...), a stable sort.
RECURSIVE SortScored(_)
SortScored(s) ==
    IF Len(s) = 0 THEN <<>>
    ELSE InsertScored(s[Len(s)], SortScored(SubSeq(s, 1, Len(s) - 1)), 1)

\* directorCounts.get(id) ?? 0
CountOf(counts, id) == IF id \in DOMAIN counts THEN counts[id] ELSE 0

\* directorCounts.set(id, value)
SetCount(counts, id, value) ==
    [k \in DOMAIN counts \cup {id} |-> IF k = id THEN value ELSE counts[k]]

RECURSIVE MaxSimilarity(_, _, _)
MaxSimilarity(c, picked, i) ==
    IF i > Len(picked) THEN 0
    ELSE Max(pairSimilarity(c, picked[i]), MaxSimilarity(c, picked, i + 1))

\* mmr = 0.78 * relevance - 0.22 * maxSimilarity, in 1e-8.
Mmr(c, picked) ==
    78 * c.relevance - 22 * (IF Len(picked) = 0 THEN 0 ELSE MaxSimilarity(c, picked, 1))

NegativeInfinity == 0 - 2000 * Unit6

\* DirectorCapped with the cap reached one selection early.
DirectorCappedOneEarly(c, counts) ==
    c.director_id # Null /\ CountOf(counts, c.director_id) >= MAX_PER_DIRECTOR - 1

\* DirectorCapped with the cap tested by > instead of >=.
DirectorCappedOffByOne(c, counts) ==
    c.director_id # Null /\ CountOf(counts, c.director_id) > MAX_PER_DIRECTOR

DirectorCapped(c, counts) ==
    c.director_id # Null /\ CountOf(counts, c.director_id) >= MAX_PER_DIRECTOR

\* The for loop of one selection round from position index on: the index in
\* rem of the candidate to pick, 0 when none is eligible (the source's -1).
\* BestIndex without the tie-break: the first candidate of the highest mmr
\* stays the best.
RECURSIVE BestIndexFirstWins(_, _, _, _, _, _)
BestIndexFirstWins(rem, picked, counts, index, bestIndex, bestMmr) ==
    IF index > Len(rem) THEN bestIndex
    ELSE LET c == rem[index]
             mmr == Mmr(c, picked)
         IN  IF DirectorCapped(c, counts)
             THEN BestIndexFirstWins(rem, picked, counts, index + 1, bestIndex, bestMmr)
             ELSE IF mmr > bestMmr
             THEN BestIndexFirstWins(rem, picked, counts, index + 1, index, mmr)
             ELSE BestIndexFirstWins(rem, picked, counts, index + 1, bestIndex, bestMmr)

\* BestIndex with the last tie-break reversed: among candidates of equal mmr
\* and score the highest id wins.
RECURSIVE BestIndexHighestId(_, _, _, _, _, _)
BestIndexHighestId(rem, picked, counts, index, bestIndex, bestMmr) ==
    IF index > Len(rem) THEN bestIndex
    ELSE LET c == rem[index]
             mmr == Mmr(c, picked)
         IN  IF DirectorCapped(c, counts)
             THEN BestIndexHighestId(rem, picked, counts, index + 1, bestIndex, bestMmr)
             ELSE IF mmr > bestMmr
             THEN BestIndexHighestId(rem, picked, counts, index + 1, index, mmr)
             ELSE IF mmr = bestMmr /\ bestIndex >= 1
                     /\ (c.similarity_score > rem[bestIndex].similarity_score
                         \/ (c.similarity_score = rem[bestIndex].similarity_score
                             /\ c.id > rem[bestIndex].id))
             THEN BestIndexHighestId(rem, picked, counts, index + 1, index, bestMmr)
             ELSE BestIndexHighestId(rem, picked, counts, index + 1, bestIndex, bestMmr)

RECURSIVE BestIndex(_, _, _, _, _, _)
BestIndex(rem, picked, counts, index, bestIndex, bestMmr) ==
    IF index > Len(rem) THEN bestIndex
    ELSE LET c == rem[index]
             mmr == Mmr(c, picked)
         IN  IF DirectorCapped(c, counts)
             THEN BestIndex(rem, picked, counts, index + 1, bestIndex, bestMmr)
             ELSE IF mmr > bestMmr
             THEN BestIndex(rem, picked, counts, index + 1, index, mmr)
             ELSE IF mmr = bestMmr /\ bestIndex >= 1
                     /\ (c.similarity_score > rem[bestIndex].similarity_score
                         \/ (c.similarity_score = rem[bestIndex].similarity_score
                             /\ c.id < rem[bestIndex].id))
             THEN BestIndex(rem, picked, counts, index + 1, index, bestMmr)
             ELSE BestIndex(rem, picked, counts, index + 1, bestIndex, bestMmr)

\* RemoveAt that removes nothing.
RemoveAtKeepsAll(s, index) == s

\* remaining.splice(index, 1)
RemoveAt(s, index) == SubSeq(s, 1, index - 1) \o SubSeq(s, index + 1, Len(s))

\* selected.map(movie => ({ id, title, ..., director_id }))
RECURSIVE ToRanked(_)
ToRanked(s) ==
    IF Len(s) = 0 THEN <<>>
    ELSE <<[id |-> s[1].id, title |-> s[1].title, poster_path |-> s[1].poster_path,
            release_date |-> s[1].release_date, vote_average |-> s[1].vote_average,
            similarity_score |-> s[1].similarity_score, match_reason |-> s[1].match_reason,
            director_id |-> s[1].director_id]>> \o ToRanked(Tail(s))

\* The while loop of rankCandidates run to its end: the selection it leaves.
RECURSIVE SelectLoop(_, _, _)
SelectLoop(rem, picked, counts) ==
    IF ~(Len(rem) > 0 /\ Len(picked) < MAX_RESULTS) THEN picked
    ELSE LET bestIndex == BestIndex(rem, picked, counts, 1, 0, NegativeInfinity)
             best == rem[bestIndex]
         IN  IF bestIndex = 0 THEN picked
             ELSE SelectLoop(RemoveAt(rem, bestIndex), Append(picked, best),
                             IF best.director_id # Null
                             THEN SetCount(counts, best.director_id,
                                           CountOf(counts, best.director_id) + 1)
                             ELSE counts)

\* rankCandidates(base, candidates) as one call.
rankCandidates(b, candidates) ==
    ToRanked(SelectLoop(SortScored(ScoreAll(b, candidates)), <<>>, <<>>))

(***************************************************************************)
(* The TMDB client (api.ts): getMovieRecommendations and its helpers.  A   *)
(* payload field that is absent is Null; a date is the integer yyyymmdd.   *)
(***************************************************************************)

\* value ?? fallback
Coalesce(value, fallback) == IF value = Null THEN fallback ELSE value

\* Number(date.slice(0, 4)), null without a date.
parseYear(date) == IF date = Null THEN Null ELSE date \div 10000

\* array.map(entry => entry.id)
MapId(s) == [i \in 1 .. Len(s) |-> s[i].id]

\* crew.find(member => member.job === 'Director')?.id, Null when none.
RECURSIVE FindDirector(_, _)
FindDirector(crew, i) ==
    IF i > Len(crew) THEN Null
    ELSE IF crew[i].job = "Director" THEN crew[i].id
    ELSE FindDirector(crew, i + 1)

extractScoreFeatures(payload) ==
    [genreIds |-> MapId(payload.genres),
     directorId |-> FindDirector(payload.crew, 1),
     castIds |-> MapId(SubSeq(payload.cast, 1, Min(5, Len(payload.cast)))),
     voteAverage |-> Coalesce(payload.vote_average, 0),
     voteCount |-> Coalesce(payload.vote_count, 0),
     releaseYear |-> parseYear(payload.release_date),
     runtimeMinutes |-> payload.runtime,
     keywordIds |-> MapId(payload.keywords)]

\* The fields of mapMovieDetails the recommendations use.
mapMovieDetails(payload) ==
    [id |-> payload.id, title |-> payload.title, release_date |-> payload.release_date,
     poster_path |-> payload.poster_path,
     vote_average |-> Coalesce(payload.vote_average, 0)]

toCandidate(movie) ==
    [id |-> movie.id, title |-> movie.title, release_date |-> movie.release_date,
     poster_path |-> movie.poster_path,
     vote_average |-> Coalesce(movie.vote_average, 0),
     vote_count |-> Coalesce(movie.vote_count, 0)]

\* list.map(toCandidate)
MapToCandidate(s) == [i \in 1 .. Len(s) |-> toCandidate(s[i])]

\* byId.get(id): the position of id's entry in the map, 0 when it has none.
IndexOfId(byId, id) ==
    IF \E i \in DOMAIN byId : byId[i].id = id
    THEN CHOOSE i \in DOMAIN byId : byId[i].id = id
    ELSE 0

\* IsBaseMovie that never recognises the reference movie.
IsBaseMovieNever(c, baseMovieId) == FALSE

\* candidate.id === baseMovieId
IsBaseMovie(c, baseMovieId) == c.id = baseMovieId

\* ShouldSet that lets every later version replace the one kept.
ShouldSetAlways(byId, existing, c) == TRUE

\* !existing || candidate.vote_count > existing.vote_count
ShouldSet(byId, existing, c) ==
    existing = 0 \/ c.vote_count > byId[existing].vote_count

\* The for loop of uniqueCandidates.  byId is the Map as the sequence of its
\* values in insertion order; setting an id it already has keeps its place.
RECURSIVE FillById(_, _, _)
FillById(candidates, baseMovieId, byId) ==
    IF Len(candidates) = 0 THEN byId
    ELSE LET c == Head(candidates)
             existing == IndexOfId(byId, c.id)
         IN  IF IsBaseMovie(c, baseMovieId)
             THEN FillById(Tail(candidates), baseMovieId, byId)
             ELSE IF ShouldSet(byId, existing, c)
             THEN FillById(Tail(candidates), baseMovieId,
                           IF existing = 0 THEN Append(byId, c)
                           ELSE [byId EXCEPT ![existing] = c])
             ELSE FillById(Tail(candidates), baseMovieId, byId)

\* The comparator of both vote sorts: negative when left goes before right.
CompareVotes(left, right) ==
    IF Coalesce(right.vote_count, 0) # Coalesce(left.vote_count, 0)
    THEN Coalesce(right.vote_count, 0) - Coalesce(left.vote_count, 0)
    ELSE Coalesce(right.vote_average, 0) - Coalesce(left.vote_average, 0)

\* array.sort by vote_count, then vote_average, both descending.  The sort
\* is stable: an entry goes to the position that counts the entries the
\* comparator puts before it and the equal ones that came before it.
SortByVotes(s) ==
    LET position == [i \in DOMAIN s |->
                        1 + Cardinality({j \in DOMAIN s :
                                \/ CompareVotes(s[j], s[i]) < 0
                                \/ CompareVotes(s[j], s[i]) = 0 /\ j < i})]
    IN  [k \in DOMAIN s |-> s[CHOOSE i \in DOMAIN s : position[i] = k]]

\* uniqueCandidates that drops the reference movie and keeps every other
\* entry, repeated ids included.
uniqueCandidatesKeepsRepeats(candidates, baseMovieId) ==
    SortByVotes(SelectSeq(candidates, LAMBDA c : ~IsBaseMovie(c, baseMovieId)))

uniqueCandidates(candidates, baseMovieId) ==
    SortByVotes(FillById(candidates, baseMovieId, <<>>))

MIN_DIRECTOR_VOTES == 50
MAX_DIRECTOR_MOVIES == 18
MAX_DETAIL_FETCHES == 45

\* movie.job === 'Director' && (movie.vote_count ?? 0) >= 50
IsDirected(movie) ==
    movie.job = "Director" /\ Coalesce(movie.vote_count, 0) >= MIN_DIRECTOR_VOTES

\* crew.filter(...)
FilterDirected(crew) == SelectSeq(crew, IsDirected)

\* directorMovies after the filmography fetch succeeded with this crew list.
DirectorMovies(crew) ==
    LET sorted == SortByVotes(FilterDirected(crew))
    IN  SubSeq(sorted, 1, Min(MAX_DIRECTOR_MOVIES, Len(sorted)))

\* A call of tmdbJson: the path requested, as its resource and the id in it.
Request(resource, id) == [resource |-> resource, id |-> id]

\* The three fetches of Promise.all.
BaseRequests(id) ==
    <<Request("/movie/{id}", id), Request("/movie/{id}/similar", id),
      Request("/movie/{id}/recommendations", id)>>

\* The filmography fetch.
CreditsRequest(directorId) == Request("/person/{id}/movie_credits", directorId)

\* The argument and the result of the uniqueCandidates call.
AllCandidates(similar, recommended, directorMovies) ==
    MapToCandidate(similar) \o MapToCandidate(recommended) \o MapToCandidate(directorMovies)

\* mergedCandidates.slice(0, 45): the candidates whose details are fetched.
DetailRequests(merged) == SubSeq(merged, 1, Min(MAX_DETAIL_FETCHES, Len(merged)))

\* The detail fetches, one for each of these candidates.
DetailFetches(merged) ==
    [i \in DOMAIN DetailRequests(merged) |-> Request("/movie/{id}", DetailRequests(merged)[i].id)]

\* RankingCandidates that stops at the first failed detail fetch.
RECURSIVE RankingCandidatesUntilFailure(_)
RankingCandidatesUntilFailure(settled) ==
    IF Len(settled) = 0 THEN <<>>
    ELSE IF Head(settled).status # "fulfilled" THEN <<>>
    ELSE LET detail == Head(settled).value
             mapped == mapMovieDetails(detail)
             candidateScoreFeatures == extractScoreFeatures(detail)
         IN  <<[id |-> mapped.id, title |-> mapped.title, poster_path |-> mapped.poster_path,
                release_date |-> mapped.release_date, vote_average |-> mapped.vote_average,
                director_id |-> candidateScoreFeatures.directorId,
                features |-> candidateScoreFeatures]>>
             \o RankingCandidatesUntilFailure(Tail(settled))

\* The loop over the settled detail fetches: rankingCandidates.
RECURSIVE RankingCandidates(_)
RankingCandidates(settled) ==
    IF Len(settled) = 0 THEN <<>>
    ELSE IF Head(settled).status # "fulfilled" THEN RankingCandidates(Tail(settled))
    ELSE LET detail == Head(settled).value
             mapped == mapMovieDetails(detail)
             candidateScoreFeatures == extractScoreFeatures(detail)
         IN  <<[id |-> mapped.id, title |-> mapped.title, poster_path |-> mapped.poster_path,
                release_date |-> mapped.release_date, vote_average |-> mapped.vote_average,
                director_id |-> candidateScoreFeatures.directorId,
                features |-> candidateScoreFeatures]>>
             \o RankingCandidates(Tail(settled))

\* ranked.map(movie => ({ id, ..., similarity_score, match_reason }))
RECURSIVE ToResults(_)
ToResults(s) ==
    IF Len(s) = 0 THEN <<>>
    ELSE <<[id |-> s[1].id, title |-> s[1].title, poster_path |-> s[1].poster_path,
            release_date |-> s[1].release_date, vote_average |-> s[1].vote_average,
            similarity_score |-> s[1].similarity_score,
            match_reason |-> s[1].match_reason]>> \o ToResults(Tail(s))

\* The value getMovieRecommendations resolves with.
Resolved(basePayload, candidates) ==
    [status |-> "resolved",
     base_movie |-> [id |-> basePayload.id, title |-> basePayload.title],
     results |-> ToResults(rankCandidates(extractScoreFeatures(basePayload), candidates))]

\* A call that threw: the promise is rejected.
Rejected == [status |-> "rejected", base_movie |-> [id |-> Null, title |-> ""],
             results |-> <<>>]

\* No call has settled.
Pending == [status |-> "pending", base_movie |-> [id |-> Null, title |-> ""],
            results |-> <<>>]

(***************************************************************************)
(* Inputs.  The reference and candidate feature records are those of the   *)
(* engine's tests and their variations.                                    *)
(***************************************************************************)

Features(g, d, c, va, vc, y, r, k) ==
    [genreIds |-> g, directorId |-> d, castIds |-> c, voteAverage |-> va,
     voteCount |-> vc, releaseYear |-> y, runtimeMinutes |-> r, keywordIds |-> k]

\* features() of the tests.
TestBase ==
    Features(<<28, 878, 53>>, 99, <<1, 2, 3, 4, 5>>, 82, 1500, 2010, 132, <<10, 20, 30, 40>>)

\* A reference with no known director, year or runtime.
SparseBase == Features(<<28, 18>>, Null, <<2, 44>>, 74, 35, Null, Null, <<10, 88>>)

Bases == {TestBase, SparseBase}

GenreLists == {<<>>, <<18>>, <<28, 18>>, <<28, 878>>, <<28, 878, 53>>, <<28, 878, 53, 18>>}
KeywordLists == {<<>>, <<999>>, <<10, 88>>, <<10, 20, 88>>, <<10, 20, 30, 40>>,
                 <<10, 20, 30, 40, 88>>}
CastLists == {<<>>, <<77, 78>>, <<1>>, <<2, 44>>, <<1, 2, 3, 4>>, <<1, 2, 3, 4, 5>>}
DirectorIds == {Null, 99, 12}
VoteCounts == {0, 20, 34, 35, 700, 1500}

\* voteAverage, releaseYear, runtimeMinutes.
Profiles == {<<82, 2010, 132>>, <<74, 2006, 115>>, <<30, 1980, 250>>,
             <<82, Null, Null>>, <<100, 2036, 62>>}

CandidateFeatures ==
    {Features(g, d, c, pr[1], vc, pr[2], pr[3], k) :
        g \in GenreLists, d \in DirectorIds, c \in CastLists,
        vc \in VoteCounts, pr \in Profiles, k \in KeywordLists}

\* A list of n ids that shares its first id, and no other, with a reference.
OneShared(first, n) == [i \in 1 .. n |-> IF i = 1 THEN first ELSE 100 + i]

\* Candidates at the thresholds of the first hard filter: genre and keyword
\* lists that share one id in ten or in eleven with a reference, and casts
\* that share one member of low or high billing.
ThresholdGenres == {<<77>>, OneShared(28, 8), OneShared(28, 9), OneShared(28, 10)}
ThresholdKeywords == {<<999>>, OneShared(10, 7), OneShared(10, 8), OneShared(10, 9)}
ThresholdCasts == {<<>>, <<5>>, <<3>>, <<2>>}

ThresholdCandidates ==
    {Features(g, d, c, 82, vc, 2010, 132, k) :
        g \in ThresholdGenres, d \in DirectorIds, c \in ThresholdCasts,
        vc \in {34, 700}, k \in ThresholdKeywords}

\* The pairs scoreCandidate is applied to: every candidate against each
\* reference, and every record against itself.
ScorePairs ==
    (Bases \X (CandidateFeatures \cup ThresholdCandidates))
    \cup {<<f, f>> : f \in CandidateFeatures}

(***************************************************************************)
(* Candidate pools for rankCandidates.  A pool of n candidates is laid out *)
(* by a few parameters: which feature record each position gets, how many  *)
(* directors the pool cycles through, and whether ids rise or fall.        *)
(***************************************************************************)

MaxPool == 20
MaxDirectors == 3
NumStrides == 2

\* Feature records of pool members, the director left open: voteAverage,
\* voteCount, year, runtime, genres, keywords, cast.
Kinds ==
    << <<82, 1500, 2010, 132, <<28, 878, 53>>, <<10, 20, 30, 40>>, <<1, 2, 3, 4, 5>> >>,
       <<86, 1500, 2010, 132, <<28, 878, 53>>, <<10, 20, 30>>, <<1, 2, 3, 4, 5>> >>,
       <<74, 700, 2006, 115, <<28, 878>>, <<10, 20, 88>>, <<2, 44>> >>,
       <<82, 400, 2010, 132, <<18>>, <<999>>, <<77, 78>> >>,
       <<85, 20, Null, 132, <<28, 18>>, <<10, 20>>, <<1>> >>,
       <<82, 900, 1980, 132, <<28, 878>>, <<10, 20, 30, 90>>, <<99>> >>,
       <<87, 1500, 2010, 132, <<28, 878, 53>>, <<10, 20, 30, 40>>, <<1, 2, 3, 4, 5>> >> >>

\* The director of position i when the pool cycles through d directors
\* starting at first; no director at all when d = 0.
DirectorAt(i, d, first) == IF d = 0 THEN Null ELSE first + ((i - 1) % d)

\* candidate(id, featureSet, directorId) of the tests: director_id and
\* vote_average repeat the feature record's.
Candidate(id, kind, director) ==
    [id |-> id, title |-> "Movie", poster_path |-> Null,
     release_date |-> IF kind[3] = Null THEN 2000 ELSE kind[3],
     vote_average |-> kind[1], director_id |-> director,
     features |-> Features(kind[5], director, kind[7], kind[1], kind[2], kind[3], kind[4],
                           kind[6])]

MakePool(n, d, first, stride, offset, rising) ==
    [i \in 1 .. n |->
        Candidate(IF rising THEN i ELSE n + 1 - i,
                  Kinds[(((i - 1) * stride + offset) % Len(Kinds)) + 1],
                  DirectorAt(i, d, first))]

Pools ==
    {MakePool(n, d, first, stride, offset, rising) :
        n \in 0 .. MaxPool, d \in (0 .. MaxDirectors) \cup {MaxPool + 1}, first \in {99, 7},
        stride \in 0 .. NumStrides, offset \in {0, 2}, rising \in BOOLEAN}

\* The pools rankCandidates is called on as one step: no director or
\* MaxDirectors of them, the reference's among them.
CallPools ==
    {MakePool(n, d, 99, stride, 0, rising) :
        n \in 0 .. MaxPool, d \in {0, MaxDirectors}, stride \in 0 .. NumStrides,
        rising \in BOOLEAN}

(***************************************************************************)
(* The TMDB server a getMovieRecommendations call talks to: the details of *)
(* every movie, and the lists one call is answered with.  Movie 101 is the *)
(* reference of the tests, movie 102 one with no director, year or         *)
(* runtime; the other movies take their feature records from Kinds.        *)
(***************************************************************************)

MaxListed == 47
MaxCredits == 20
MaxFailureSubset == 4
MaxModulus == 3

Named(ids, name) == [i \in 1 .. Len(ids) |-> [id |-> ids[i], name |-> name]]

CrewOf(director) ==
    <<[id |-> 500, job |-> "Producer"]>>
    \o (IF director = Null THEN <<>> ELSE <<[id |-> director, job |-> "Director"]>>)

\* A /movie/{id} payload; a cast of five is followed by two more members.
MoviePayload(id, kind, director) ==
    [id |-> id, title |-> "Movie",
     release_date |-> IF kind[3] = Null THEN Null ELSE kind[3] * 10000 + 716,
     runtime |-> kind[4], genres |-> Named(kind[5], "Genre"), poster_path |-> Null,
     vote_average |-> kind[1], vote_count |-> kind[2],
     cast |-> Named(IF Len(kind[7]) = 5 THEN kind[7] \o <<6, 7>> ELSE kind[7], "Actor"),
     crew |-> CrewOf(director), keywords |-> Named(kind[6], "Keyword")]

SparseKind == <<74, 35, Null, Null, <<28, 18>>, <<10, 88>>, <<2, 44>> >>

DirectorOf(id) == IF id % 3 = 0 THEN 99 ELSE IF id % 3 = 1 THEN 12 ELSE Null

DetailOf(id) ==
    IF id = 101 THEN MoviePayload(id, Kinds[1], 99)
    ELSE IF id = 102 THEN MoviePayload(id, SparseKind, Null)
    ELSE MoviePayload(id, Kinds[(id % Len(Kinds)) + 1], DirectorOf(id))

MovieIds == {101, 102}

\* An entry of a list response; votes is its vote_count, Null when absent.
ListMovie(id, votes) ==
    [id |-> id, title |-> "Movie", release_date |-> DetailOf(id).release_date,
     poster_path |-> Null, vote_average |-> DetailOf(id).vote_average, vote_count |-> votes]

\* The vote counts the similar and the recommended lists give a movie: they
\* differ for the same movie, either way round.
SimilarVotes(id) == IF id % 5 = 0 THEN Null ELSE 100 * (id % 5)
RecommendedVotes(id) == 100 * ((id + 2) % 4)

SimilarOf(ids) == [i \in 1 .. Len(ids) |-> ListMovie(ids[i], SimilarVotes(ids[i]))]
RecommendedOf(ids) == [i \in 1 .. Len(ids) |-> ListMovie(ids[i], RecommendedVotes(ids[i]))]

SimilarLists ==
    {SimilarOf(ids) : ids \in {<<>>, <<1, 2, 3>>, <<6, 7, 15>>, <<3, 101, 1, 102, 5>>,
                                [i \in 1 .. MaxListed |-> i]}}

RecommendedLists ==
    {RecommendedOf(ids) : ids \in {<<>>, <<2, 3, 4>>, <<6, 1, 102, 101, 1>>}}

\* An entry of a person's movie credits.
Credit(id, job, votes) ==
    [id |-> id, title |-> "Movie", release_date |-> DetailOf(id).release_date,
     poster_path |-> Null, vote_average |-> DetailOf(id).vote_average, vote_count |-> votes,
     job |-> job]

\* The crew credits of director 99: none, a few (the reference movie among
\* them), or more than are kept.
CreditLists ==
    {<<>>,
     <<Credit(101, "Director", 1500), Credit(4, "Director", 90), Credit(7, "Producer", 800),
       Credit(1, "Director", 30), Credit(3, "Director", 450), Credit(9, "Director", Null),
       Credit(12, "Director", 450)>>,
     [i \in 1 .. MaxCredits |-> Credit(59 + i, "Director", 50 + 10 * (i % 7))]}

\* What the server holds for one call: the lists for the movie and, when it
\* has a director, the director's crew credits.
Worlds ==
    {[movieId |-> id, similar |-> s, recommended |-> r, crew |-> c] :
        id \in MovieIds, s \in SimilarLists, r \in RecommendedLists, c \in CreditLists}

NoWorld == [movieId |-> Null, similar |-> <<>>, recommended |-> <<>>, crew |-> <<>>]

\* The sets of detail fetches that fail in one call: any subset of a few
\* requests, and for more requests the ids of one residue class.
FailureSets(ids) ==
    IF Cardinality(ids) <= MaxFailureSubset THEN SUBSET ids
    ELSE {{}} \cup {{id \in ids : id % m = r} : m \in 1 .. MaxModulus, r \in 0 .. MaxModulus - 1}

\* Promise.allSettled over the detail fetches, those of failing rejected.
Settle(fetched, failing) ==
    [i \in 1 .. Len(fetched) |->
        IF fetched[i].id \in failing
        THEN [status |-> "rejected", value |-> Null]
        ELSE [status |-> "fulfilled", value |-> DetailOf(fetched[i].id)]]

(***************************************************************************)
(* The pages and the favorites store.                                      *)
(*                                                                         *)
(* A value that is null or an object (movie, error, recommendations) is    *)
(* held as a set: empty for null, the singleton of the object otherwise.   *)
(***************************************************************************)

None == {}
Some(x) == {x}

\* Loads the details page starts.
MaxLoads == 3

\* Recommendation requests made on the home page.
MaxRequests == 3

\* Ids of the movies favorites are toggled for.
MaxFavoriteId == 4

TitleOf(id) == IF id = 101 THEN "Inception" ELSE IF id = 102 THEN "Parasite" ELSE "Movie"

\* What getMovieDetails(id) and getMovieRecommendations(id) resolve with for
\* the pages: the movie, and a list that names the movie it was built for.
PageDetails(id) == [id |-> id, title |-> TitleOf(id)]

PageRecommendations(id) ==
    [base_movie |-> [id |-> id, title |-> TitleOf(id)],
     results |-> <<[id |-> id + 1000, title |-> "Movie", similarity_score |-> 900],
                   [id |-> id + 2000, title |-> "Movie", similarity_score |-> 800]>>]

\* MovieDetailsPage: Number(params.id) of the routes; 0 stands for an id that
\* is not a positive finite number.
RouteIds == MovieIds \cup {0}

\* useState initial values of MovieDetailsPage.
DetailsPageMounted == [movie |-> None, recommendations |-> <<>>, loading |-> TRUE, error |-> None]

\* The effect's cleanup: cancelled = true for the load of the effect that ends.
Cleanup(loads) == [i \in DOMAIN loads |-> [loads[i] EXCEPT !.cancelled = TRUE]]

\* The effect body up to the await inside loadData: an invalid id sets the
\* error and starts nothing; a valid id starts a load with cancelled = false.
Effect(page, loads, id) ==
    IF id <= 0
    THEN [page |-> [page EXCEPT !.error = Some("Invalid movie id"), !.loading = FALSE],
          loads |-> loads]
    ELSE [page |-> [page EXCEPT !.loading = TRUE, !.error = None],
          loads |-> Append(loads, [movieId |-> id, cancelled |-> FALSE, status |-> "pending"])]

\* The finally block of loadData without the cancelled test.
FinallyUnguarded(page, load) == [page EXCEPT !.loading = FALSE]

\* The finally block of loadData.
Finally(page, load) == IF ~load.cancelled THEN [page EXCEPT !.loading = FALSE] ELSE page

\* loadData after the await, both fetches fulfilled.
LoadFulfilled(page, load) ==
    Finally(IF ~load.cancelled
            THEN [page EXCEPT !.movie = Some(PageDetails(load.movieId)),
                              !.recommendations = PageRecommendations(load.movieId).results]
            ELSE page,
            load)

\* loadData after the await, a fetch rejected.
LoadRejected(page, load) ==
    Finally(IF ~load.cancelled
            THEN [page EXCEPT !.error = Some("Could not load movie")]
            ELSE page,
            load)

\* useState initial values of HomePage (recommendation part).
HomePageMounted == [recommendations |-> None, loadingRecommendationsFor |-> Null, error |-> None]

\* handleLoadRecommendations up to its await.
RequestStarted(page, id) == [page EXCEPT !.loadingRecommendationsFor = id, !.error = None]

\* handleLoadRecommendations after the await, the call fulfilled.
RequestFulfilled(page, payload) ==
    [page EXCEPT !.recommendations = Some([baseMovieTitle |-> payload.base_movie.title,
                                           items |-> payload.results]),
                 !.loadingRecommendationsFor = Null]

\* handleLoadRecommendations after the await, the call rejected.
RequestRejected(page) ==
    [page EXCEPT !.recommendations = None,
                 !.error = Some("Could not load recommendations"),
                 !.loadingRecommendationsFor = Null]

\* The list the home page shows: recommendations.items when recommendations
\* is set and its items are not empty.
Displayed(page) ==
    IF page.recommendations = None THEN <<>>
    ELSE (CHOOSE r \in page.recommendations : TRUE).items

\* The favorites store: what localStorage holds under FAVORITES_KEY.  The
\* key is absent, or holds the JSON text of an array of favorites, or holds
\* text that does not parse to an array.
StoreAbsent == [kind |-> "absent", items |-> <<>>]
StoreCorrupt == [kind |-> "corrupt", items |-> <<>>]

\* JSON.parse(raw) of what saveFavorites wrote gives the array back: a
\* favorite holds JSON numbers, strings and nulls only.
readFavorites(raw) == IF raw.kind = "array" THEN raw.items ELSE <<>>

saveFavorites(favorites) == [kind |-> "array", items |-> favorites]

\* favorites.findIndex((item) => item.id === id): zero-based, -1 when absent.
FindIndex(favorites, id) ==
    IF \E i \in DOMAIN favorites : favorites[i].id = id
    THEN (CHOOSE i \in DOMAIN favorites :
            /\ favorites[i].id = id
            /\ \A j \in DOMAIN favorites : favorites[j].id = id => i <= j) - 1
    ELSE 0 - 1

isFavorite(raw, id) ==
    \E i \in DOMAIN readFavorites(raw) : readFavorites(raw)[i].id = id

\* toggleFavorite that adds the movie whether or not its id is stored.
toggleFavoriteAlwaysAdds(raw, movie) ==
    [storage |-> saveFavorites(<<movie>> \o readFavorites(raw)), result |-> TRUE]

\* toggleFavorite that removes the first stored entry in place of the one found.
toggleFavoriteRemovesFirst(raw, movie) ==
    LET favorites == readFavorites(raw)
        index == FindIndex(favorites, movie.id)
    IN  IF index >= 0
        THEN [storage |-> saveFavorites(Tail(favorites)), result |-> FALSE]
        ELSE [storage |-> saveFavorites(<<movie>> \o favorites), result |-> TRUE]

\* toggleFavorite(movie): the store it leaves and the value it returns.
toggleFavorite(raw, movie) ==
    LET favorites == readFavorites(raw)
        index == FindIndex(favorites, movie.id)
    IN  IF index >= 0
        THEN [storage |-> saveFavorites(SubSeq(favorites, 1, index)
                                        \o SubSeq(favorites, index + 2, Len(favorites))),
              result |-> FALSE]
        ELSE [storage |-> saveFavorites(<<movie>> \o favorites), result |-> TRUE]

\* The favorites the pages toggle: one id can come with different titles.
Favorites == {[id |-> id, title |-> title] : id \in 1 .. MaxFavoriteId, title \in {"Movie", "Film"}}

NoFavorite == [id |-> Null, title |-> ""]

(***************************************************************************)
(* The state machine: a call of scoreCandidate, and a call of              *)
(* rankCandidates taken one selection round at a time.                     *)
(***************************************************************************)

\* Raw scores calibrateToMatchScore is applied to: a grid over [0, 1], and
\* for each grid point the raw scores a little or a lot above it.
CalibrationGrid == 400
RawScores == {i * (Unit8 \div CalibrationGrid) : i \in 0 .. CalibrationGrid}
RawSteps == {0, 1, 1000, Unit8 \div CalibrationGrid, Unit6, 10 * Unit6, Unit8}

NoCalibration == [raw1 |-> 0, raw2 |-> 0, score1 |-> 0, score2 |-> 0]

NoFeatures == Features(<<>>, Null, <<>>, 0, 0, Null, Null, <<>>)

Init ==
    /\ pc = "idle"
    /\ base = NoFeatures
    /\ candidate = NoFeatures
    /\ scored = NoScore
    /\ pool = <<>>
    /\ remaining = <<>>
    /\ selected = <<>>
    /\ directorCounts = <<>>
    /\ ranked = <<>>
    /\ calibration = NoCalibration
    /\ movieId = Null
    /\ tmdb = NoWorld
    /\ failed = [fetches |-> {}, details |-> {}]
    /\ requests = <<>>
    /\ allCandidates = <<>>
    /\ mergedCandidates = <<>>
    /\ rankingCandidates = <<>>
    /\ response = Pending
    /\ detailsRoute = [mounted |-> FALSE, movieId |-> 0]
    /\ detailsPage = DetailsPageMounted
    /\ detailsLoads = <<>>
    /\ homePage = HomePageMounted
    /\ homeRequests = <<>>
    /\ storage = StoreAbsent
    /\ toggled = [movie |-> NoFavorite, result |-> FALSE]

\* scoreCandidate(base, candidate)
ScoreCandidate ==
    /\ pc = "idle"
    /\ \E pair \in ScorePairs :
        /\ base' = pair[1]
        /\ candidate' = pair[2]
        /\ scored' = scoreCandidate(pair[1], pair[2])
    /\ pc' = "scored"
    /\ UNCHANGED <<pool, remaining, selected, directorCounts, ranked, calibration, apiVars, webVars>>

\* rankCandidates(base, candidates) up to the selection loop: score, filter,
\* sort, and the empty selection.
RankStart ==
    /\ pc = "idle"
    /\ \E b \in Bases, candidates \in Pools :
        /\ base' = b
        /\ pool' = candidates
        /\ remaining' = SortScored(ScoreAll(b, candidates))
    /\ selected' = <<>>
    /\ directorCounts' = <<>>
    /\ pc' = "select"
    /\ UNCHANGED <<candidate, scored, ranked, calibration, apiVars, webVars>>

\* LoopCondition with the result cap tested by <= instead of <.
LoopConditionOffByOne == Len(remaining) > 0 /\ Len(selected) <= MAX_RESULTS

LoopCondition == Len(remaining) > 0 /\ Len(selected) < MAX_RESULTS

\* One iteration of the while loop that picks a candidate.
RankSelect ==
    /\ pc = "select"
    /\ LoopCondition
    /\ LET bestIndex == BestIndex(remaining, selected, directorCounts, 1, 0, NegativeInfinity)
           picked == remaining[bestIndex]
       IN  /\ bestIndex # 0
           /\ remaining' = RemoveAt(remaining, bestIndex)
           /\ directorCounts' = IF picked.director_id # Null
                                THEN SetCount(directorCounts, picked.director_id,
                                              CountOf(directorCounts, picked.director_id) + 1)
                                ELSE directorCounts
           /\ selected' = Append(selected, picked)
    /\ UNCHANGED <<pc, base, candidate, scored, pool, ranked, calibration, apiVars, webVars>>

\* The loop ends (its condition fails, or no candidate is eligible: break)
\* and rankCandidates returns.
RankReturn ==
    /\ pc = "select"
    /\ \/ ~LoopCondition
       \/ BestIndex(remaining, selected, directorCounts, 1, 0, NegativeInfinity) = 0
    /\ ranked' = ToRanked(selected)
    /\ pc' = "ranked"
    /\ UNCHANGED <<base, candidate, scored, pool, remaining, selected, directorCounts,
                   calibration, apiVars, webVars>>

\* rankCandidates(base, candidates) as one step, from the call to the return:
\* selected is the selection the loop made, ranked the list returned.
RankCall ==
    /\ pc = "idle"
    /\ \E b \in Bases, candidates \in CallPools :
        /\ base' = b
        /\ pool' = candidates
        /\ selected' = SelectLoop(SortScored(ScoreAll(b, candidates)), <<>>, <<>>)
        /\ ranked' = rankCandidates(b, candidates)
    /\ pc' = "returned"
    /\ UNCHANGED <<candidate, scored, remaining, directorCounts, calibration, apiVars,
                   webVars>>

\* calibrateToMatchScore on two raw scores, raw1 <= raw2.
Calibrate ==
    /\ pc = "idle"
    /\ \E raw1 \in RawScores, step \in RawSteps :
        LET raw2 == Min(raw1 + step, Unit8)
        IN  calibration' = [raw1 |-> raw1, raw2 |-> raw2,
                            score1 |-> calibrateToMatchScore(raw1),
                            score2 |-> calibrateToMatchScore(raw2)]
    /\ pc' = "calibrated"
    /\ UNCHANGED <<base, candidate, scored, pool, remaining, selected, directorCounts, ranked,
                   apiVars, webVars>>

\* The variables of the engine's own calls.
engineVars == <<base, candidate, scored, pool, remaining, selected, directorCounts, ranked,
                calibration>>

\* getMovieRecommendations(movieId) up to its second await: the three fetches
\* of Promise.all are issued and settle, those of failures failing.  When any
\* fails the call rejects; a reference with a director goes on to fetch the
\* filmography; otherwise the candidates are merged and their detail fetches
\* issued.  requests records every fetch issued, in order.
GetMovieRecommendations ==
    /\ pc = "idle"
    /\ \E world \in Worlds, failures \in SUBSET {"base", "similar", "recommended"} :
        LET basePayload == DetailOf(world.movieId)
            directorId == FindDirector(basePayload.crew, 1)
            all == AllCandidates(world.similar, world.recommended, <<>>)
        IN  /\ movieId' = world.movieId
            /\ tmdb' = world
            /\ failed' = [fetches |-> failures, details |-> {}]
            /\ IF failures # {}
               THEN /\ response' = Rejected
                    /\ requests' = BaseRequests(world.movieId)
                    /\ pc' = "rejected"
                    /\ UNCHANGED <<allCandidates, mergedCandidates>>
               ELSE IF directorId # Null /\ directorId # 0
               THEN /\ requests' = Append(BaseRequests(world.movieId), CreditsRequest(directorId))
                    /\ pc' = "credits"
                    /\ UNCHANGED <<response, allCandidates, mergedCandidates>>
               ELSE /\ allCandidates' = all
                    /\ mergedCandidates' = uniqueCandidates(all, world.movieId)
                    /\ requests' = BaseRequests(world.movieId)
                                    \o DetailFetches(uniqueCandidates(all, world.movieId))
                    /\ pc' = "details"
                    /\ UNCHANGED response
    /\ UNCHANGED <<rankingCandidates, engineVars, webVars>>

\* The filmography fetch settles: its failure is caught and leaves
\* directorMovies empty.  The candidates are merged and their detail fetches
\* issued.
DirectorCredits ==
    /\ pc = "credits"
    /\ \E fulfilled \in BOOLEAN :
        LET directorMovies == IF fulfilled THEN DirectorMovies(tmdb.crew) ELSE <<>>
            all == AllCandidates(tmdb.similar, tmdb.recommended, directorMovies)
        IN  /\ failed' = IF fulfilled THEN failed
                         ELSE [failed EXCEPT !.fetches = @ \cup {"credits"}]
            /\ allCandidates' = all
            /\ mergedCandidates' = uniqueCandidates(all, movieId)
            /\ requests' = requests \o DetailFetches(uniqueCandidates(all, movieId))
    /\ pc' = "details"
    /\ UNCHANGED <<movieId, tmdb, rankingCandidates, response, engineVars, webVars>>

\* Promise.allSettled settles, the fetches of failing rejected: the candidates
\* are built, ranked and returned.
DetailsSettled ==
    /\ pc = "details"
    /\ \E failing \in FailureSets(Range(MapId(DetailRequests(mergedCandidates)))) :
        LET candidates == RankingCandidates(Settle(DetailRequests(mergedCandidates), failing))
        IN  /\ failed' = [failed EXCEPT !.details = failing]
            /\ rankingCandidates' = candidates
            /\ response' = Resolved(DetailOf(movieId), candidates)
    /\ pc' = "resolved"
    /\ UNCHANGED <<movieId, tmdb, requests, allCandidates, mergedCandidates, engineVars, webVars>>

\* MovieDetailsPage is mounted on a route: the state takes its initial
\* values and the effect runs.  detailsLoads holds every load started, in
\* order, with its cancelled flag and whether it has completed.
DetailsMount ==
    /\ pc \in {"idle", "detailsPage"}
    /\ ~detailsRoute.mounted
    /\ Len(detailsLoads) < MaxLoads
    /\ \E id \in RouteIds :
        LET effect == Effect(DetailsPageMounted, detailsLoads, id)
        IN  /\ detailsRoute' = [mounted |-> TRUE, movieId |-> id]
            /\ detailsPage' = effect.page
            /\ detailsLoads' = effect.loads
    /\ pc' = "detailsPage"
    /\ UNCHANGED <<engineVars, apiVars, homeVars, favoritesVars>>

\* The route's id changes: the cleanup of the previous effect runs, when it
\* returned one, and the effect runs for the new id.
DetailsNavigate ==
    /\ pc = "detailsPage"
    /\ detailsRoute.mounted
    /\ Len(detailsLoads) < MaxLoads
    /\ \E id \in RouteIds \ {detailsRoute.movieId} :
        LET cleaned == IF detailsRoute.movieId <= 0 THEN detailsLoads ELSE Cleanup(detailsLoads)
            effect == Effect(detailsPage, cleaned, id)
        IN  /\ detailsRoute' = [mounted |-> TRUE, movieId |-> id]
            /\ detailsPage' = effect.page
            /\ detailsLoads' = effect.loads
    /\ UNCHANGED <<pc, engineVars, apiVars, homeVars, favoritesVars>>

\* The page is unmounted: the cleanup runs; the state is written no more.
DetailsUnmount ==
    /\ pc = "detailsPage"
    /\ detailsRoute.mounted
    /\ detailsRoute' = [detailsRoute EXCEPT !.mounted = FALSE]
    /\ detailsLoads' = IF detailsRoute.movieId <= 0 THEN detailsLoads ELSE Cleanup(detailsLoads)
    /\ UNCHANGED <<pc, detailsPage, engineVars, apiVars, homeVars, favoritesVars>>

\* Promise.all of a load fulfils.
DetailsLoadFulfilled ==
    /\ pc = "detailsPage"
    /\ \E i \in DOMAIN detailsLoads :
        /\ detailsLoads[i].status = "pending"
        /\ detailsPage' = LoadFulfilled(detailsPage, detailsLoads[i])
        /\ detailsLoads' = [detailsLoads EXCEPT ![i].status = "fulfilled"]
    /\ UNCHANGED <<pc, detailsRoute, engineVars, apiVars, homeVars, favoritesVars>>

\* Promise.all of a load rejects.
DetailsLoadRejected ==
    /\ pc = "detailsPage"
    /\ \E i \in DOMAIN detailsLoads :
        /\ detailsLoads[i].status = "pending"
        /\ detailsPage' = LoadRejected(detailsPage, detailsLoads[i])
        /\ detailsLoads' = [detailsLoads EXCEPT ![i].status = "rejected"]
    /\ UNCHANGED <<pc, detailsRoute, engineVars, apiVars, homeVars, favoritesVars>>

\* A click on "Get Recommendations" of a search result whose button is enabled.
HomeLoadRecommendations ==
    /\ pc \in {"idle", "homePage"}
    /\ Len(homeRequests) < MaxRequests
    /\ \E id \in MovieIds :
        /\ homePage.loadingRecommendationsFor # id
        /\ homePage' = RequestStarted(homePage, id)
        /\ homeRequests' = Append(homeRequests, [movieId |-> id, status |-> "pending"])
    /\ pc' = "homePage"
    /\ UNCHANGED <<engineVars, apiVars, detailsVars, favoritesVars>>

\* The response of a pending request arrives.
HomeRecommendationsFulfilled ==
    /\ pc = "homePage"
    /\ \E i \in DOMAIN homeRequests :
        /\ homeRequests[i].status = "pending"
        /\ homePage' = RequestFulfilled(homePage, PageRecommendations(homeRequests[i].movieId))
        /\ homeRequests' = [homeRequests EXCEPT ![i].status = "fulfilled"]
    /\ UNCHANGED <<pc, engineVars, apiVars, detailsVars, favoritesVars>>

\* A pending request fails.
HomeRecommendationsRejected ==
    /\ pc = "homePage"
    /\ \E i \in DOMAIN homeRequests :
        /\ homeRequests[i].status = "pending"
        /\ homePage' = RequestRejected(homePage)
        /\ homeRequests' = [homeRequests EXCEPT ![i].status = "rejected"]
    /\ UNCHANGED <<pc, engineVars, apiVars, detailsVars, favoritesVars>>

\* The browser holds text under FAVORITES_KEY that is not an array of favorites.
StoreCorrupted ==
    /\ pc = "idle"
    /\ storage' = StoreCorrupt
    /\ pc' = "favorites"
    /\ UNCHANGED <<toggled, engineVars, apiVars, detailsVars, homeVars>>

\* toggleFavorite(movie)
ToggleFavorite ==
    /\ pc \in {"idle", "favorites"}
    /\ \E movie \in Favorites :
        /\ storage' = toggleFavorite(storage, movie).storage
        /\ toggled' = [movie |-> movie, result |-> toggleFavorite(storage, movie).result]
    /\ pc' = "favorites"
    /\ UNCHANGED <<engineVars, apiVars, detailsVars, homeVars>>

NextScore == ScoreCandidate
NextCalibrate == Calibrate
NextRank == RankStart \/ RankSelect \/ RankReturn
NextRankCall == RankCall
NextApi == GetMovieRecommendations \/ DirectorCredits \/ DetailsSettled
NextDetailsPage ==
    \/ DetailsMount
    \/ DetailsNavigate
    \/ DetailsUnmount
    \/ DetailsLoadFulfilled
    \/ DetailsLoadRejected
NextHomePage ==
    \/ HomeLoadRecommendations
    \/ HomeRecommendationsFulfilled
    \/ HomeRecommendationsRejected
NextFavorites == StoreCorrupted \/ ToggleFavorite
Next ==
    \/ ScoreCandidate
    \/ Calibrate
    \/ RankStart
    \/ RankSelect
    \/ RankReturn
    \/ RankCall
    \/ GetMovieRecommendations
    \/ DirectorCredits
    \/ DetailsSettled
    \/ DetailsMount
    \/ DetailsNavigate
    \/ DetailsUnmount
    \/ DetailsLoadFulfilled
    \/ DetailsLoadRejected
    \/ HomeLoadRecommendations
    \/ HomeRecommendationsFulfilled
    \/ HomeRecommendationsRejected
    \/ StoreCorrupted
    \/ ToggleFavorite

SpecScore == Init /\ [][NextScore]_vars
SpecCalibrate == Init /\ [][NextCalibrate]_vars
SpecRank == Init /\ [][NextRank]_vars
SpecRankCall == Init /\ [][NextRankCall]_vars
SpecApi == Init /\ [][NextApi]_vars
SpecDetailsPage == Init /\ [][NextDetailsPage]_vars
SpecHomePage == Init /\ [][NextHomePage]_vars
SpecFavorites == Init /\ [][NextFavorites]_vars
Spec == Init /\ [][Next]_vars

(***************************************************************************)
(* Properties.                                                             *)
(***************************************************************************)

\* The number of entries of list s whose director_id is d.
DirectorCount(s, d) == Cardinality({i \in DOMAIN s : s[i].director_id = d})

DirectorsOf(s) == {s[i].director_id : i \in DOMAIN s} \ {Null}

\* Claim C1: the list rankCandidates returns holds at most 2 entries with
\* any one non-null director_id; the same holds of the selection at every
\* round of the loop.
C1_PerDirectorCap ==
    /\ \A d \in DirectorsOf(ranked) : DirectorCount(ranked, d) <= 2
    /\ \A d \in DirectorsOf(selected) : DirectorCount(selected, d) <= 2

\* C1's case: rankCandidates has returned two entries of a director and
\* left an accepted candidate of that director out.
C1_Witness ==
    /\ pc = "ranked"
    /\ \E d \in DirectorsOf(ranked) :
        /\ DirectorCount(ranked, d) = 2
        /\ DirectorCount(remaining, d) > 0

\* Claim C2: rankCandidates returns at most 18 entries, also for a pool with
\* more than 18 accepted candidates of pairwise different directors.
C2_AtMostMaxResults == Len(ranked) <= 18 /\ Len(selected) <= 18

\* C2's case: more than 18 candidates were accepted, no two of them of the
\* same director, and rankCandidates has returned.
C2_Witness ==
    /\ pc = "ranked"
    /\ Len(ranked) = 18
    /\ Len(remaining) > 0
    /\ \A d \in DirectorsOf(selected \o remaining) : DirectorCount(selected \o remaining, d) = 1
    /\ Null \notin {(selected \o remaining)[i].director_id : i \in DOMAIN (selected \o remaining)}

\* The director signal, stated on the two feature records.
DirectorsMatch(b, c) ==
    b.directorId # Null /\ c.directorId # Null /\ b.directorId = c.directorId

Ids(list) == {list[i] : i \in DOMAIN list}

Labels ==
    {"Shared themes", "Strong genre overlap", "Shared cast", "Same era", "Similar pacing"}

SameDirectorReasons == {"Same director"} \cup {"Same director + " \o l : l \in Labels}

OtherReasons ==
    {"Strong overall profile match"} \cup Labels
    \cup {l1 \o " + " \o l2 : l1 \in Labels, l2 \in Labels}

\* Claim C4: scoreCandidate returns null or a {score, reason} result and
\* rankCandidates returns a list; a pool in which every candidate is
\* rejected, the empty pool included, yields the empty list.
C4_NoFailure ==
    /\ pc = "scored" =>
        \/ scored = NoScore
        \/ /\ ~scored.isNull
           /\ scored.score \in 0 .. 994
           /\ scored.reason \in SameDirectorReasons \cup OtherReasons
    /\ pc = "ranked" =>
        /\ DOMAIN ranked = 1 .. Len(ranked)
        /\ (\A i \in DOMAIN pool : scoreCandidate(base, pool[i].features).isNull)
            => ranked = <<>>

\* C4's case: rankCandidates has returned on a pool that is not empty and
\* whose candidates are all rejected.
C4_Witness ==
    /\ pc = "ranked"
    /\ Len(pool) > 1
    /\ \A i \in DOMAIN pool : scoreCandidate(base, pool[i].features).isNull
    /\ ranked = <<>>

\* Claim C5: when the directors do not match and the candidate has fewer
\* than 35 votes, scoreCandidate returns null, whatever the overlap.
C5_VoteFloor ==
    (pc = "scored" /\ ~DirectorsMatch(base, candidate) /\ candidate.voteCount < 35)
        => scored.isNull

\* C5's case: a candidate of another director with 34 votes that shares
\* every genre, keyword and cast member with the reference.
C5_Witness ==
    /\ pc = "scored"
    /\ base.directorId # Null /\ candidate.directorId # Null
    /\ base.directorId # candidate.directorId
    /\ candidate.voteCount = 34
    /\ base.genreIds # <<>> /\ candidate.genreIds = base.genreIds
    /\ base.keywordIds # <<>> /\ candidate.keywordIds = base.keywordIds
    /\ base.castIds # <<>> /\ candidate.castIds = base.castIds
    /\ scored.isNull

Disjoint(left, right) == Ids(left) \cap Ids(right) = {}

\* Claim C6: when the directors do not match and the genre, keyword and
\* cast lists are each disjoint, scoreCandidate returns null.
C6_NoOverlapRejected ==
    (/\ pc = "scored"
     /\ ~DirectorsMatch(base, candidate)
     /\ Disjoint(base.genreIds, candidate.genreIds)
     /\ Disjoint(base.keywordIds, candidate.keywordIds)
     /\ Disjoint(base.castIds, candidate.castIds))
        => scored.isNull

\* C6's case: disjoint non-empty lists on both sides, another director,
\* and enough votes to pass the vote floor.
C6_Witness ==
    /\ pc = "scored"
    /\ base.directorId # Null /\ candidate.directorId # Null
    /\ base.directorId # candidate.directorId
    /\ candidate.voteCount >= 35
    /\ base.genreIds # <<>> /\ candidate.genreIds # <<>>
    /\ base.keywordIds # <<>> /\ candidate.keywordIds # <<>>
    /\ base.castIds # <<>> /\ candidate.castIds # <<>>
    /\ Disjoint(base.genreIds, candidate.genreIds)
    /\ Disjoint(base.keywordIds, candidate.keywordIds)
    /\ Disjoint(base.castIds, candidate.castIds)
    /\ scored.isNull

\* Claim C7: a candidate whose feature record is the reference's own, the
\* reference having a director and non-empty genre, keyword and cast lists,
\* scores at least 85 with a reason containing "Same director".
C7_IdenticalScoresHigh ==
    (/\ pc = "scored"
     /\ candidate = base
     /\ base.directorId # Null
     /\ base.genreIds # <<>> /\ base.keywordIds # <<>> /\ base.castIds # <<>>)
        => /\ ~scored.isNull
           /\ scored.score >= 850
           /\ scored.reason \in SameDirectorReasons

\* C7's case: a reference other than the tests' scored against itself: no
\* votes, no year or runtime, one genre.
C7_Witness ==
    /\ pc = "scored"
    /\ candidate = base
    /\ base.directorId # Null
    /\ Len(base.genreIds) = 1 /\ base.keywordIds # <<>> /\ base.castIds # <<>>
    /\ base.voteCount = 0 /\ base.releaseYear = Null
    /\ ~scored.isNull

\* |left /\ right| and |left \/ right| of two id lists.
Shared(left, right) == Cardinality(Ids(left) \cap Ids(right))
United(left, right) == Cardinality(Ids(left) \cup Ids(right))

\* Part of the list is shared: something is, and the sets differ.
PartlyShared(left, right) ==
    Shared(left, right) > 0 /\ Shared(left, right) < United(left, right)

\* A moderate match as in the test "keeps medium matches below inflated 90+
\* scores": another director, part of the genres and keywords shared, some
\* but not all of the reference's cast in the candidate, enough votes, and
\* year, runtime and rating no further from the reference than the test's.
Moderate(b, c) ==
    /\ ~DirectorsMatch(b, c)
    /\ PartlyShared(b.genreIds, c.genreIds)
    /\ PartlyShared(b.keywordIds, c.keywordIds)
    /\ Shared(b.castIds, c.castIds) > 0
    /\ Shared(b.castIds, c.castIds) < Cardinality(Ids(b.castIds))
    /\ c.voteCount >= 35
    /\ b.releaseYear # Null /\ c.releaseYear # Null /\ Abs(b.releaseYear - c.releaseYear) <= 4
    /\ b.runtimeMinutes # Null /\ c.runtimeMinutes # Null
    /\ Abs(b.runtimeMinutes - c.runtimeMinutes) <= 17
    /\ Abs(b.voteAverage - c.voteAverage) <= 8

\* The candidate of that test.
TestModerate == Features(<<28, 878>>, 12, <<2, 44>>, 74, 700, 2006, 115, <<10, 20, 88>>)

\* Claim C8 as stated: every moderate match gets a non-null score s with
\* 46 <= s < 90.
C8_ModerateInRange ==
    (pc = "scored" /\ Moderate(base, candidate))
        => (~scored.isNull /\ scored.score >= 460 /\ scored.score < 900)

\* Claim C8, amended: a moderate match whose genre Jaccard is at most 2/3
\* and whose keyword Jaccard is at most 1/2 is rejected or gets a score s
\* with 46 <= s < 90; the test's candidate gets 56.8.
C8_ModerateBounded ==
    /\ (/\ pc = "scored"
        /\ Moderate(base, candidate)
        /\ 3 * Shared(base.genreIds, candidate.genreIds)
            <= 2 * United(base.genreIds, candidate.genreIds)
        /\ 2 * Shared(base.keywordIds, candidate.keywordIds)
            <= United(base.keywordIds, candidate.keywordIds))
        => (scored.isNull \/ (scored.score >= 460 /\ scored.score < 900))
    /\ (pc = "scored" /\ base = TestBase /\ candidate = TestModerate)
        => (~scored.isNull /\ scored.score = 568)

\* C8's case: the test's moderate match has been scored.
C8_Witness ==
    /\ pc = "scored"
    /\ base = TestBase
    /\ candidate = TestModerate
    /\ Moderate(base, candidate)
    /\ ~scored.isNull

\* The least score scoreCandidate may return for the pair, in tenths.
Threshold(b, c) == IF DirectorsMatch(b, c) THEN 400 ELSE 460

\* Claim C9: a non-null result of scoreCandidate, and every entry
\* rankCandidates holds or returns, has a score of at least 40 when the
\* directors match and at least 46 otherwise, and of at most 99.4.
C9_ScoreBounds ==
    /\ (pc = "scored" /\ ~scored.isNull)
        => (scored.score >= Threshold(base, candidate) /\ scored.score <= 994)
    /\ \A i \in DOMAIN remaining :
        /\ remaining[i].similarity_score >= Threshold(base, remaining[i].features)
        /\ remaining[i].similarity_score <= 994
    /\ \A i \in DOMAIN selected :
        /\ selected[i].similarity_score >= Threshold(base, selected[i].features)
        /\ selected[i].similarity_score <= 994
    /\ \A i \in DOMAIN ranked :
        /\ ranked[i].similarity_score >= Threshold(base, selected[i].features)
        /\ ranked[i].similarity_score <= 994

\* C9's case: a same-director candidate accepted with a score below 46.
C9_Witness ==
    /\ pc = "scored"
    /\ ~scored.isNull
    /\ DirectorsMatch(base, candidate)
    /\ scored.score < 460

\* Claim C10: calibrateToMatchScore is monotonic non-decreasing on [0, 1],
\* rounding included.
C10_CalibrationMonotonic ==
    (pc = "calibrated" /\ calibration.raw1 <= calibration.raw2)
        => calibration.score1 <= calibration.score2

\* C10's case: two raw scores at most 1e-5 apart, one on each side of a
\* rounding step of the calibrated score.
C10_Witness ==
    /\ pc = "calibrated"
    /\ calibration.raw1 < calibration.raw2
    /\ calibration.score1 < calibration.score2
    /\ calibration.raw2 - calibration.raw1 <= 1000

\* The entry rankCandidates returns for pool member c: c's own fields with
\* the score and reason scoreCandidate gives it.
EntryOf(c) ==
    LET result == scoreCandidate(base, c.features)
    IN  [id |-> c.id, title |-> c.title, poster_path |-> c.poster_path,
         release_date |-> c.release_date, vote_average |-> c.vote_average,
         similarity_score |-> result.score, match_reason |-> result.reason,
         director_id |-> c.director_id]

\* C14: every returned entry is a distinct accepted member of the pool with
\* its own fields and its scoreCandidate score and reason.  An entry occurs
\* in the result at most as often as the pool has members that scoreCandidate
\* accepts and that yield this entry.
C14_EntriesArePoolMembers ==
    pc = "ranked"
        => \A k \in DOMAIN ranked :
            Cardinality({j \in DOMAIN ranked : ranked[j] = ranked[k]})
                <= Cardinality({i \in DOMAIN pool :
                        /\ pool[i].id = ranked[k].id
                        /\ ~scoreCandidate(base, pool[i].features).isNull
                        /\ EntryOf(pool[i]) = ranked[k]})

\* A result of several entries from a pool that also had rejected members.
C14_Witness ==
    /\ pc = "ranked"
    /\ Len(ranked) >= 3
    /\ Len(ranked) < MAX_RESULTS
    /\ \E i \in DOMAIN pool : scoreCandidate(base, pool[i].features).isNull

\* The qualifying reasons of the scored pair other than the director's,
\* each with its contribution.
OtherQualifying ==
    SelectSeq(ReasonCandidates(scoreSignals(base, candidate)), NotSameDirectorLabel)

\* C16: with matching directors the reason is "Same director" when no other
\* label qualifies, and otherwise "Same director + L" for a qualifying label
\* L whose contribution no other qualifying label exceeds.
C16_SameDirectorReason ==
    (pc = "scored" /\ ~scored.isNull /\ DirectorsMatch(base, candidate))
        => IF Len(OtherQualifying) = 0
           THEN scored.reason = "Same director"
           ELSE \E i \in DOMAIN OtherQualifying :
                    /\ scored.reason = "Same director + " \o OtherQualifying[i].label
                    /\ \A j \in DOMAIN OtherQualifying :
                        OtherQualifying[j].contribution <= OtherQualifying[i].contribution

\* A same-director pair whose strongest other label is not the first that
\* qualifies: the themes are shared, the genre overlap counts more.
C16_Witness ==
    /\ pc = "scored"
    /\ ~scored.isNull
    /\ DirectorsMatch(base, candidate)
    /\ scored.reason = "Same director + Strong genre overlap"
    /\ \E i \in DOMAIN OtherQualifying : OtherQualifying[i].label = "Shared themes"

\* The positions of remaining whose candidate may still be selected: no
\* director, or a director with fewer than MAX_PER_DIRECTOR selections.
Eligible ==
    {i \in DOMAIN remaining :
        \/ remaining[i].director_id = Null
        \/ DirectorCount(selected, remaining[i].director_id) < MAX_PER_DIRECTOR}

SetMax(S) == CHOOSE x \in S : \A y \in S : y <= x

\* 0.78 x relevance - 0.22 x (the greatest pairSimilarity to a selected
\* entry, 0 when none is selected), in 1e-8; relevance is the score / 100.
MmrOf(c) ==
    78 * (c.similarity_score * 1000)
    - 22 * (IF Len(selected) = 0 THEN 0
            ELSE SetMax({pairSimilarity(c, selected[k]) : k \in DOMAIN selected}))

\* The mmr of every remaining candidate.
MmrOfRemaining == [i \in DOMAIN remaining |-> MmrOf(remaining[i])]

\* Position i of remaining is the round's choice: it is eligible and every
\* other eligible position has a lower mmr, or the same mmr and a lower
\* score, or the same mmr and score and no lower id.
IsRoundChoice(i, mmr) ==
    /\ i \in Eligible
    /\ \A j \in Eligible :
        \/ mmr[j] < mmr[i]
        \/ /\ mmr[j] = mmr[i]
           /\ \/ remaining[j].similarity_score < remaining[i].similarity_score
              \/ /\ remaining[j].similarity_score = remaining[i].similarity_score
                 /\ remaining[i].id <= remaining[j].id

\* C18: in each selection round the candidate moved into the result is the
\* eligible remaining candidate of highest mmr, a tie on mmr going to the
\* higher similarity_score and then to the lower id.
C18_RoundPicksBestMmr ==
    [][(pc = "select" /\ Len(selected') = Len(selected) + 1)
        => LET mmr == MmrOfRemaining
           IN  \E i \in DOMAIN remaining :
                /\ remaining[i] = selected'[Len(selected')]
                /\ remaining' = RemoveAt(remaining, i)
                /\ IsRoundChoice(i, mmr)]_vars

\* A round, after the first, in which two eligible candidates tie on the
\* highest mmr and on the score, and the one later in remaining has the
\* lower id.
C18_Witness ==
    /\ pc = "select"
    /\ Len(selected) >= 1
    /\ Len(selected) < MAX_RESULTS
    /\ LET mmr == MmrOfRemaining
       IN  \E i, j \in Eligible :
            /\ i < j
            /\ IsRoundChoice(j, mmr)
            /\ mmr[i] = mmr[j]
            /\ remaining[i].similarity_score = remaining[j].similarity_score
            /\ remaining[j].id < remaining[i].id

\* C19: the selection loop ends, and it ends with fewer than MAX_RESULTS
\* entries only when no eligible candidate is left.  Every step of the loop
\* either returns or takes one candidate out of remaining, so the loop makes
\* no more rounds than there are accepted candidates; and when the call
\* returns fewer than MAX_RESULTS entries, every accepted candidate it did
\* not return (those left in remaining) has a director who already has
\* MAX_PER_DIRECTOR entries in the result.
C19_LoopEndsAndStopsEarlyOnlyWhenCapped ==
    [][/\ pc = "select"
            => \/ pc' = "ranked"
               \/ pc' = "select" /\ Len(remaining') < Len(remaining)
       /\ (pc' = "ranked" /\ Len(ranked') < MAX_RESULTS)
            => \A i \in DOMAIN remaining' :
                /\ remaining'[i].director_id # Null
                /\ DirectorCount(ranked', remaining'[i].director_id) = MAX_PER_DIRECTOR]_vars

\* A call that returned fewer than MAX_RESULTS entries and left accepted
\* candidates unreturned.
C19_Witness ==
    /\ pc = "ranked"
    /\ Len(ranked) < MAX_RESULTS
    /\ Len(ranked) >= 3
    /\ Len(remaining) >= 2

\* The Jaccard index of two id lists is below 1/10: a list is empty, or ten
\* times the shared ids are fewer than the ids of the union.
JaccardBelowTenth(left, right) ==
    \/ Len(left) = 0
    \/ Len(right) = 0
    \/ 10 * Shared(left, right) < United(left, right)

\* The weight of the reference's cast slot p, counted when the slot is
\* filled and, for shared, when its member is in the candidate's cast.
SlotWeight(baseCast, candidateCast, p, shared) ==
    IF p <= Len(baseCast) /\ (~shared \/ baseCast[p] \in Range(candidateCast))
    THEN CAST_POSITION_WEIGHTS[p] ELSE 0

\* The cast score is below 1/5: a cast is empty, or five times the weight of
\* the shared slots is less than the weight of the filled slots.
CastBelowFifth(baseCast, candidateCast) ==
    \/ Len(baseCast) = 0
    \/ Len(candidateCast) = 0
    \/ 5 * (SlotWeight(baseCast, candidateCast, 1, TRUE)
            + SlotWeight(baseCast, candidateCast, 2, TRUE)
            + SlotWeight(baseCast, candidateCast, 3, TRUE)
            + SlotWeight(baseCast, candidateCast, 4, TRUE)
            + SlotWeight(baseCast, candidateCast, 5, TRUE))
        < SlotWeight(baseCast, candidateCast, 1, FALSE)
          + SlotWeight(baseCast, candidateCast, 2, FALSE)
          + SlotWeight(baseCast, candidateCast, 3, FALSE)
          + SlotWeight(baseCast, candidateCast, 4, FALSE)
          + SlotWeight(baseCast, candidateCast, 5, FALSE)

\* The pair has no director match and is below all three thresholds.
BelowAllThresholds(b, c) ==
    /\ ~DirectorsMatch(b, c)
    /\ JaccardBelowTenth(b.genreIds, c.genreIds)
    /\ JaccardBelowTenth(b.keywordIds, c.keywordIds)
    /\ CastBelowFifth(b.castIds, c.castIds)

\* C20: the first hard filter rejects exactly the candidates of another
\* director whose genre Jaccard is below 0.1, keyword Jaccard below 0.1 and
\* cast score below 0.2: the filter applies to exactly those pairs, and
\* scoreCandidate returns null for each of them.
C20_FirstFilterExact ==
    pc = "scored"
        => /\ NoCoreOverlap(scoreSignals(base, candidate))
                <=> BelowAllThresholds(base, candidate)
           /\ BelowAllThresholds(base, candidate) => scored.isNull

\* A pair of different directors that reaches exactly one threshold, the
\* genre Jaccard being 1/10, with some keyword and cast overlap below the
\* thresholds: the first filter lets it pass.
C20_Witness ==
    /\ pc = "scored"
    /\ base.directorId # Null /\ candidate.directorId # Null
    /\ base.directorId # candidate.directorId
    /\ 10 * Shared(base.genreIds, candidate.genreIds)
        = United(base.genreIds, candidate.genreIds)
    /\ Shared(base.keywordIds, candidate.keywordIds) = 1
    /\ JaccardBelowTenth(base.keywordIds, candidate.keywordIds)
    /\ Shared(base.castIds, candidate.castIds) = 1
    /\ CastBelowFifth(base.castIds, candidate.castIds)
    /\ ~NoCoreOverlap(scoreSignals(base, candidate))

(***************************************************************************)
(* getMovieRecommendations.                                                *)
(***************************************************************************)

\* C11: the reference movie is never a candidate.  No candidate left by
\* uniqueCandidates, no candidate handed to rankCandidates and no entry of
\* the returned results has the id the recommendations were asked for.
C11_ReferenceNeverCandidate ==
    /\ \A i \in DOMAIN mergedCandidates : mergedCandidates[i].id # movieId
    /\ \A i \in DOMAIN rankingCandidates : rankingCandidates[i].id # movieId
    /\ \A i \in DOMAIN response.results : response.results[i].id # movieId

\* A call that resolved with results although the lists named the reference
\* movie itself.
C11_Witness ==
    /\ pc = "resolved"
    /\ \E i \in DOMAIN allCandidates : allCandidates[i].id = movieId
    /\ Len(response.results) > 0

\* The candidate's detail fetch was fulfilled.
DetailFulfilled(c) == c.id \notin failed.details

\* C12: when the base, similar and recommended fetches succeed, detail
\* fetches may fail without failing the request.  The call rejects only
\* when one of those three fetches failed, and when it resolves the pool
\* handed to rankCandidates holds, in order and once each, exactly the
\* candidates whose detail fetch was fulfilled.
C12_PartialFailuresTolerated ==
    /\ response.status = "rejected"
        => failed.fetches \cap {"base", "similar", "recommended"} # {}
    /\ pc = "resolved"
        => /\ response.status = "resolved"
           /\ MapId(rankingCandidates)
                = MapId(SelectSeq(DetailRequests(mergedCandidates), DetailFulfilled))

\* A call that resolved with results after some detail fetches failed and
\* others, later in the list, succeeded.
C12_Witness ==
    /\ pc = "resolved"
    /\ Len(response.results) > 0
    /\ \E i, j \in DOMAIN mergedCandidates :
        /\ i < j /\ j <= MAX_DETAIL_FETCHES
        /\ mergedCandidates[i].id \in failed.details
        /\ mergedCandidates[j].id \notin failed.details

\* The results the call of the state resolves with when no fetch fails.
UnfailedResults ==
    LET basePayload == DetailOf(movieId)
        directorId == FindDirector(basePayload.crew, 1)
        directorMovies == IF directorId # Null THEN DirectorMovies(tmdb.crew) ELSE <<>>
        merged == uniqueCandidates(
                      AllCandidates(tmdb.similar, tmdb.recommended, directorMovies), movieId)
    IN  Resolved(basePayload, RankingCandidates(Settle(DetailRequests(merged), {}))).results

\* C13: a metadata-fetch failure never shows as an empty result.  A call in
\* which some fetch failed does not resolve with an empty results list
\* unless the list is empty without the failures too.
C13_FailureNeverLooksEmpty ==
    (/\ pc = "resolved"
     /\ response.status = "resolved"
     /\ failed.fetches # {} \/ failed.details # {}
     /\ response.results = <<>>)
        => UnfailedResults = <<>>

\* C15: uniqueCandidates keeps at most one candidate per id, the one with
\* the greatest vote_count among the versions of that id in the merged
\* similar, recommended and filmography lists.
C15_KeepsHighestVoteCount ==
    pc \in {"details", "resolved"}
        => /\ \A i, j \in DOMAIN mergedCandidates :
                mergedCandidates[i].id = mergedCandidates[j].id => i = j
           /\ \A i \in DOMAIN mergedCandidates :
                /\ \E k \in DOMAIN allCandidates :
                    /\ allCandidates[k].id = mergedCandidates[i].id
                    /\ allCandidates[k].vote_count = mergedCandidates[i].vote_count
                /\ \A k \in DOMAIN allCandidates :
                    allCandidates[k].id = mergedCandidates[i].id
                        => allCandidates[k].vote_count <= mergedCandidates[i].vote_count

\* Merged lists that name one movie with a rising vote_count and another
\* with a falling one.
C15_Witness ==
    /\ pc = "details"
    /\ \E i, j \in DOMAIN allCandidates :
        /\ i < j
        /\ allCandidates[i].id = allCandidates[j].id
        /\ allCandidates[i].id # movieId
        /\ allCandidates[i].vote_count < allCandidates[j].vote_count
    /\ \E i, j \in DOMAIN allCandidates :
        /\ i < j
        /\ allCandidates[i].id = allCandidates[j].id
        /\ allCandidates[i].id # movieId
        /\ allCandidates[i].vote_count > allCandidates[j].vote_count

\* C17: the results getMovieRecommendations returns are ordered by
\* similarity score, non-increasing from the first entry to the last.
C17_ResultsOrderedByScore ==
    pc = "resolved"
        => \A i, j \in DOMAIN response.results :
            i < j => response.results[i].similarity_score
                        >= response.results[j].similarity_score

\* ---------------------------------------------------------------------------
\* Unknown directors
\* ---------------------------------------------------------------------------

\* The pair with its director ids replaced by two known, different ones.
DifferentDirectors(b, c) == <<[b EXCEPT !.directorId = 1], [c EXCEPT !.directorId = 2]>>

\* Claim C21: when either director id is null, both null included, the pair
\* is treated as a pair of different directors: a candidate with fewer than
\* 35 votes is rejected, an accepted one scores at least 46, its reason is
\* not a "Same director" reason, and the result is the one the pair gets
\* with two known, different directors (no director weight, no bonus).
C21_NullDirectorNeverMatches ==
    (pc = "scored" /\ (base.directorId = Null \/ candidate.directorId = Null))
        => /\ candidate.voteCount < 35 => scored.isNull
           /\ ~scored.isNull => (scored.score >= MIN_SCORE_GENERAL
                                 /\ scored.reason \in OtherReasons)
           /\ scored = scoreCandidate(DifferentDirectors(base, candidate)[1],
                                      DifferentDirectors(base, candidate)[2])

\* C21's case: both directors unknown and the candidate accepted.
C21_Witness ==
    /\ pc = "scored"
    /\ base.directorId = Null
    /\ candidate.directorId = Null
    /\ ~scored.isNull

\* Claim C22: when the directors do not match, the reason of an accepted
\* candidate is "Strong overall profile match" when no label qualifies, the
\* label when exactly one qualifies, and otherwise "L1 + L2" for the two
\* qualifying labels of greatest contribution, L1's at least L2's.
C22_OtherDirectorReason ==
    (pc = "scored" /\ ~scored.isNull /\ ~DirectorsMatch(base, candidate))
        => IF Len(OtherQualifying) = 0
           THEN scored.reason = "Strong overall profile match"
           ELSE IF Len(OtherQualifying) = 1
           THEN scored.reason = OtherQualifying[1].label
           ELSE \E i, j \in DOMAIN OtherQualifying :
                    /\ i # j
                    /\ scored.reason = OtherQualifying[i].label \o " + " \o OtherQualifying[j].label
                    /\ OtherQualifying[i].contribution >= OtherQualifying[j].contribution
                    /\ \A k \in DOMAIN OtherQualifying \ {i, j} :
                        OtherQualifying[k].contribution <= OtherQualifying[j].contribution

\* A pair of different directors with three or more qualifying labels whose
\* two strongest are not the first two pushed: the cast outweighs the genres.
C22_Witness ==
    /\ pc = "scored"
    /\ ~scored.isNull
    /\ ~DirectorsMatch(base, candidate)
    /\ Len(OtherQualifying) >= 3
    /\ scored.reason = "Shared themes + Shared cast"
    /\ \E i \in DOMAIN OtherQualifying : OtherQualifying[i].label = "Strong genre overlap"

\* The number of fetches issued for a request.
Issued(request) == Cardinality({i \in DOMAIN requests : requests[i] = request})

\* The fetches of the call that failed.
FailedRequests ==
    {BaseRequests(movieId)[1] : x \in failed.fetches \cap {"base"}}
    \cup {BaseRequests(movieId)[2] : x \in failed.fetches \cap {"similar"}}
    \cup {BaseRequests(movieId)[3] : x \in failed.fetches \cap {"recommended"}}
    \cup {requests[4] : x \in failed.fetches \cap {"credits"}}
    \cup {Request("/movie/{id}", id) : id \in failed.details}

\* Claim C23: within one getMovieRecommendations call no resource is
\* requested twice (the reference's details, its similar and recommended
\* lists, the director's credits, the details of each candidate id), and a
\* fetch that failed was issued exactly once.
C23_EachResourceRequestedOnce ==
    /\ \A i, j \in DOMAIN requests : requests[i] = requests[j] => i = j
    /\ \A request \in FailedRequests : Issued(request) = 1

\* C23's case: a resolved call whose lists named the reference movie and one
\* candidate more than once, and in which the filmography fetch and a detail
\* fetch failed.
C23_Witness ==
    /\ pc = "resolved"
    /\ "credits" \in failed.fetches
    /\ failed.details # {}
    /\ \E i, j \in DOMAIN allCandidates : i # j /\ allCandidates[i].id = allCandidates[j].id
    /\ \E i \in DOMAIN allCandidates : allCandidates[i].id = movieId

\* ---------------------------------------------------------------------------
\* MovieDetailsPage
\* ---------------------------------------------------------------------------

\* The step is the completion of the load at position i.
Completes(i) == detailsLoads[i].status = "pending" /\ detailsLoads'[i].status # "pending"

\* Claim C24: the completion of a superseded load (the id changed or the
\* page unmounted since it started), successful or failed, changes none of
\* movie, recommendations, error and loading; a completion that changes
\* them is that of the load of the current movie id of a mounted page.
C24_SupersededLoadWritesNothing ==
    [][\A i \in DOMAIN detailsLoads :
        Completes(i)
            => /\ detailsLoads[i].cancelled => detailsPage' = detailsPage
               /\ detailsPage' # detailsPage
                    => /\ detailsRoute.mounted
                       /\ detailsLoads[i].movieId = detailsRoute.movieId]_vars

\* C24's case: the load of a movie the page has left has completed, one
\* successfully and one with a failure, while the load of the current id is
\* still in flight and the page shows the loader and no error.
C24_Witness ==
    /\ pc = "detailsPage"
    /\ detailsRoute.mounted
    /\ Len(detailsLoads) = 3
    /\ detailsLoads[1].cancelled /\ detailsLoads[1].status = "fulfilled"
    /\ detailsLoads[2].cancelled /\ detailsLoads[2].status = "rejected"
    /\ ~detailsLoads[3].cancelled /\ detailsLoads[3].status = "pending"
    /\ detailsPage.loading
    /\ detailsPage.movie = None
    /\ detailsPage.error = None

\* ---------------------------------------------------------------------------
\* HomePage
\* ---------------------------------------------------------------------------

\* Every request made has completed, and successfully.
AllFulfilled == \A i \in DOMAIN homeRequests : homeRequests[i].status = "fulfilled"

\* Claim C26: when recommendations were requested for a movie and then for
\* another before the first response arrived, then once the requests have
\* completed the list displayed is the one of the most recently requested
\* movie, whatever the order in which the responses arrived.
C26_LatestRequestDisplayed ==
    (Len(homeRequests) >= 2 /\ AllFulfilled)
        => Displayed(homePage)
            = PageRecommendations(homeRequests[Len(homeRequests)].movieId).results

\* ---------------------------------------------------------------------------
\* Favorites
\* ---------------------------------------------------------------------------

\* The ids of the stored favorites.
FavoriteIds(raw) == {readFavorites(raw)[i].id : i \in DOMAIN readFavorites(raw)}

\* Claim C29: after any sequence of toggleFavorite calls on a store that
\* was empty or free of duplicates, no two stored favorites have the same id.
C29_NoDuplicateFavorites ==
    \A i, j \in DOMAIN readFavorites(storage) :
        readFavorites(storage)[i].id = readFavorites(storage)[j].id => i = j

\* C29's case: the store holds several favorites and the last call, made
\* with an id that was stored, removed its entry.
C29_Witness ==
    /\ pc = "favorites"
    /\ Len(readFavorites(storage)) = MaxFavoriteId - 1
    /\ ~toggled.result
    /\ toggled.movie.id \notin FavoriteIds(storage)

\* The entries of favorites other than the one of this id, in order.
Others(favorites, id) == SelectSeq(favorites, LAMBDA f : f.id # id)

\* The step is a call of toggleFavorite: the store is written as an array.
IsToggle == storage' # storage /\ storage'.kind = "array"

\* Claim C30: on a store free of duplicates toggleFavorite(m) flips the
\* membership of m.id and returns the new membership, leaves every other
\* entry and their order unchanged, and a second toggle of m gives back the
\* set of ids the store had.
C30_ToggleFlipsMembership ==
    [][IsToggle =>
        LET m == toggled'.movie
        IN  /\ (m.id \in FavoriteIds(storage')) = (m.id \notin FavoriteIds(storage))
            /\ toggled'.result = (m.id \in FavoriteIds(storage'))
            /\ Others(readFavorites(storage'), m.id) = Others(readFavorites(storage), m.id)
            /\ FavoriteIds(toggleFavorite(storage', m).storage) = FavoriteIds(storage)]_vars

\* C30's case: a favorite in the middle of the list has been removed by a
\* movie of its id and another title.
C30_Witness ==
    /\ pc = "favorites"
    /\ ~toggled.result
    /\ toggled.movie = [id |-> 2, title |-> "Film"]
    /\ readFavorites(storage) = <<[id |-> 3, title |-> "Movie"], [id |-> 1, title |-> "Movie"]>>

\* ---------------------------------------------------------------------------
\* The order of the input array
\* ---------------------------------------------------------------------------

\* Pools up to this length are ranked in every order.
MaxPermuted == 3

Reversed(s) == [i \in DOMAIN s |-> s[Len(s) + 1 - i]]

Rotated(s) == IF Len(s) = 0 THEN s ELSE Tail(s) \o <<Head(s)>>

\* The odd positions of s, then the even ones.
Dealt(s) ==
    [i \in DOMAIN s |->
        IF i <= (Len(s) + 1) \div 2 THEN s[2 * i - 1] ELSE s[2 * (i - (Len(s) + 1) \div 2)]]

\* Other orders of the same pool: every order of a short pool, and for a
\* longer one the reversed, the rotated and the dealt order.
Rearrangements(s) ==
    IF Len(s) <= MaxPermuted
    THEN {[i \in DOMAIN s |-> s[p[i]]] : p \in Permutations(DOMAIN s)}
    ELSE {Reversed(s), Rotated(s), Dealt(s)}

\* Claim C27: for a pool of pairwise distinct ids the list rankCandidates
\* returns does not depend on the order of the input array: the same pool
\* in another order gives the same list.
C27_InputOrderIrrelevant ==
    pc = "returned"
        => \A candidates \in Rearrangements(pool) : rankCandidates(base, candidates) = ranked

\* C27's case: a pool given in another order than the one it is ranked in,
\* with a rejected candidate, whose ranked list holds two candidates of
\* equal score and vote average.
C27_Witness ==
    /\ pc = "returned"
    /\ Len(pool) > MaxPermuted
    /\ \E i \in DOMAIN pool : scoreCandidate(base, pool[i].features).isNull
    /\ \E i, j \in DOMAIN ranked :
        /\ i < j
        /\ ranked[i].similarity_score = ranked[j].similarity_score
        /\ ranked[i].vote_average = ranked[j].vote_average
    /\ \E i, j \in DOMAIN pool :
        /\ i < j
        /\ pool[i].id > pool[j].id
        /\ \E k, l \in DOMAIN ranked : k < l /\ ranked[k].id = pool[j].id /\ ranked[l].id = pool[i].id

\* ---------------------------------------------------------------------------
\* The first entry
\* ---------------------------------------------------------------------------

\* What scoreCandidate returns for each member of the pool.
PoolScores == [i \in DOMAIN pool |-> scoreCandidate(base, pool[i].features)]

\* Claim C28: the first entry of a non-empty list returned by rankCandidates
\* has the greatest similarity_score of the accepted candidates, and the
\* lowest id of the accepted candidates with that score.
C28_FirstEntryIsTopScore ==
    (pc = "returned" /\ Len(ranked) > 0)
        => LET scores == PoolScores
           IN  \A i \in DOMAIN pool :
                ~scores[i].isNull
                    => /\ scores[i].score <= ranked[1].similarity_score
                       /\ scores[i].score = ranked[1].similarity_score
                            => ranked[1].id <= pool[i].id

\* C28's case: several accepted candidates share the top score, and the one
\* of lowest id, which comes first, is neither the first of the pool nor the
\* one of highest vote average among them.
C28_Witness ==
    /\ pc = "returned"
    /\ Len(ranked) > 0
    /\ pool[1].id # ranked[1].id
    /\ \E i \in DOMAIN pool :
        /\ ~PoolScores[i].isNull
        /\ PoolScores[i].score = ranked[1].similarity_score
        /\ pool[i].id > ranked[1].id
        /\ pool[i].vote_average > ranked[1].vote_average

====
